---- MODULE Spec2Model ----
(***************************************************************************)
(* Model of the diagram pipeline of Python-Learning-Tool:                  *)
(*   classify_diagram_type -> traverse_graph -> classify_node_roles ->     *)
(*   interpret_flowchart   (src/ui/UI.py, lines 579-583),                  *)
(* and of parse_graphml, which reads the node and edge lists (ParseSpec).  *)
(* Text (labels, shapes, keywords) is a sequence of one-character strings, *)
(* so that lower(), strip() and the substring test are computed.  Node ids *)
(* are opaque strings: the code only compares them and tests them for      *)
(* truth.                                                                  *)
(***************************************************************************)
EXTENDS Integers, Sequences, FiniteSets, TLC

(***************************************************************************)
(* Bounds of the model.                                                    *)
(***************************************************************************)
\* longest edge list of the graph-shape inputs
MaxEdges == 2

\* ids a node list is built from (a prefix of one of them); "" is an id the
\* parser can emit (an empty id attribute)
NodeIdSeqs == {<<"n1", "n2", "n3">>, <<"", "n2", "n3">>}

\* an id used by edges that is the id of no node
DanglingId == "x"

(***************************************************************************)
(* Text helpers: str.lower, str.strip, the `in` test on strings.           *)
(***************************************************************************)
ToLower ==
  [A |-> "a", B |-> "b", C |-> "c", D |-> "d", E |-> "e", F |-> "f", G |-> "g",
   H |-> "h", I |-> "i", J |-> "j", K |-> "k", L |-> "l", M |-> "m", N |-> "n",
   O |-> "o", P |-> "p", Q |-> "q", R |-> "r", S |-> "s", T |-> "t", U |-> "u",
   V |-> "v", W |-> "w", X |-> "x", Y |-> "y", Z |-> "z"]

LowerChar(c) == IF c \in DOMAIN ToLower THEN ToLower[c] ELSE c

Lower(s) == [i \in 1..Len(s) |-> LowerChar(s[i])]

Whitespace == {" ", "\t", "\n"}

RECURSIVE LStrip(_)
LStrip(s) == IF s # <<>> /\ Head(s) \in Whitespace THEN LStrip(Tail(s)) ELSE s

RECURSIVE RStrip(_)
RStrip(s) ==
  IF s # <<>> /\ s[Len(s)] \in Whitespace THEN RStrip(SubSeq(s, 1, Len(s) - 1)) ELSE s

Strip(s) == RStrip(LStrip(s))

\* Python: k in s
Contains(s, k) ==
  \E i \in 0..(Len(s) - Len(k)) : SubSeq(s, i + 1, i + Len(k)) = k

ContainsAny(s, kws) == \E k \in kws : Contains(s, k)

StartsWith(s, k) == Len(k) <= Len(s) /\ SubSeq(s, 1, Len(k)) = k

(***************************************************************************)
(* State.                                                                  *)
(***************************************************************************)
VARIABLES
  xml,           \* parse_graphml: the document behind file_path
  generic,       \* parse_graphml: the local variable generic
  error,         \* parse_graphml: the exception raised, if any
  nodes,         \* input: the node list, records [id, label, shape]
  edges,         \* input: the edge list, records [source, target, label]
  template_file, \* input: logic_templates.json as load_logic_templates finds it
  pc,            \* position of the pipeline
  scores,        \* classify_diagram_type: the scores dict
  diagram_type,  \* result of classify_diagram_type
  queue,         \* traverse_graph: the deque
  visited,       \* traverse_graph: the visited set
  order,         \* traverse_graph: the order list
  visit_count,   \* traverse_graph: the per-node counter
  pushes,        \* history: queue.append calls of the neighbour loop, per id
  legacy_roles,  \* traverse_graph: the second return value
  roles,         \* result of classify_node_roles
  doc,           \* result of interpret_flowchart
  prev,          \* results of the previous run on the same input
  worker         \* UI.py: the queues and dicts of the session, and the worker thread

vars == <<xml, generic, error, nodes, edges, template_file, pc, scores, diagram_type, queue, visited, order,
          visit_count, pushes, legacy_roles, roles, doc, prev, worker>>

\* the variables of parse_graphml, and those of the stages after it
parseVars == <<xml, generic, error>>
runVars == <<template_file, scores, diagram_type, queue, visited, order, visit_count,
             pushes, legacy_roles, roles, doc, prev>>
workerVars == <<worker>>

NodeIds(ns) == {ns[i].id : i \in 1..Len(ns)}

\* every id the run can meet
AllIds == NodeIds(nodes) \cup {edges[i].source : i \in 1..Len(edges)}
                         \cup {edges[i].target : i \in 1..Len(edges)}

(***************************************************************************)
(* Myparser/graphml_parser.py                                              *)
(* A document is unparseable, has no graph element under its root, or has  *)
(* one with node and edge elements.  A node element is the record of what  *)
(* the code reads from it: the id attribute, the text of the first         *)
(* NodeLabel, the type attributes of Shape and FlowchartShape (empty when  *)
(* the element or attribute is missing) and the GenericNode element with   *)
(* its configuration attribute.                                            *)
(***************************************************************************)
NoXml == [kind |-> "none", node_elems |-> <<>>, edge_elems |-> <<>>]

\* generic before its first assignment; found is `generic is not None`
Unbound == [bound |-> FALSE, found |-> FALSE, configuration |-> <<>>]

\* the exceptions the body raises: ET.ParseError, KeyError for a missing
\* attribute, UnboundLocalError for a local read before assignment
ExceptionKinds == {"ParseError", "KeyError", "UnboundLocalError"}

\* a handler for ET.ParseError alone
CatchesParseErrorOnly(kind) == kind = "ParseError"

\* except Exception
Catches(kind) == kind \in ExceptionKinds

\* config.split(".")[-1]
RECURSIVE LastSegment(_)
LastSegment(s) ==
  IF s = <<>> \/ s[Len(s)] = "." THEN <<>>
  ELSE Append(LastSegment(SubSeq(s, 1, Len(s) - 1)), s[Len(s)])

\* the shape of a lowercased GenericNode configuration
ConfigShape(config) ==
  IF Contains(config, <<"t","e","r","m","i","n","a","t","o","r">>) \/ Contains(config, <<"s","t","a","r","t">>) THEN <<"e","l","l","i","p","s","e">>
  ELSE IF Contains(config, <<"d","e","c","i","s","i","o","n">>) THEN <<"d","i","a","m","o","n","d">>
  ELSE IF Contains(config, <<"d","a","t","a">>) \/ Contains(config, <<"i","n","p","u","t">>) THEN <<"p","a","r","a","l","l","e","l","o","g","r","a","m">>
  ELSE IF Contains(config, <<"p","r","o","c","e","s","s">>) THEN <<"r","e","c","t","a","n","g","l","e">>
  ELSE LastSegment(config)

\* generic = node.find(".//y:GenericNode", ns)
FindGeneric(elem) ==
  [bound |-> TRUE, found |-> elem.has_generic, configuration |-> elem.configuration]

\* the three shape branches: the shape, and generic as the branches leave it
ResolveShape(elem, gen) ==
  LET explicit == Lower(elem.shape_type)
      flowchart == IF explicit = <<>> THEN Lower(elem.flowchart_shape_type) ELSE explicit
  IN  IF flowchart # <<>> THEN [shape |-> flowchart, generic |-> gen]
      ELSE LET g == FindGeneric(elem)
           IN  [shape |-> IF g.found THEN ConfigShape(Lower(g.configuration)) ELSE <<>>,
                generic |-> g]

\* an exception leaves the try body: the handler returns [], [], or the
\* exception leaves parse_graphml
Raise(kind) ==
  /\ error' = kind
  /\ IF Catches(kind)
       THEN nodes' = <<>> /\ edges' = <<>> /\ pc' = "parse_returned"
       ELSE pc' = "parse_propagated" /\ UNCHANGED <<nodes, edges>>

\* ET.parse and root.find("graphml:graph")
ParseOpen ==
  /\ pc = "parse_open"
  /\ IF xml.kind = "unparseable" THEN Raise("ParseError")
     ELSE /\ pc' = IF xml.kind = "no_graph" THEN "parse_returned" ELSE "parse_loop"
          /\ UNCHANGED <<nodes, edges, error>>
  /\ UNCHANGED <<xml, generic>>
  /\ UNCHANGED runVars

  /\ UNCHANGED workerVars
\* one iteration of the loop over the node elements
ParseNode ==
  /\ pc = "parse_loop"
  /\ Len(nodes) < Len(xml.node_elems)
  /\ LET elem == xml.node_elems[Len(nodes) + 1]
         r == ResolveShape(elem, generic)
     IN  IF ~elem.has_id THEN Raise("KeyError") /\ UNCHANGED generic
         ELSE /\ generic' = r.generic
              /\ IF ~r.generic.bound THEN Raise("UnboundLocalError")
                 ELSE /\ nodes' = Append(nodes,
                            [id |-> elem.id, label |-> Strip(elem.label), shape |-> r.shape,
                             metadata |->
                               [raw_shape |-> r.shape,
                                raw_config |-> IF r.generic.found
                                                 THEN r.generic.configuration ELSE <<>>]])
                      /\ UNCHANGED <<edges, error, pc>>
  /\ UNCHANGED xml
  /\ UNCHANGED runVars

  /\ UNCHANGED workerVars
\* one iteration of the loop over the edge elements
ParseEdge ==
  /\ pc = "parse_loop"
  /\ Len(nodes) = Len(xml.node_elems)
  /\ Len(edges) < Len(xml.edge_elems)
  /\ LET elem == xml.edge_elems[Len(edges) + 1]
     IN  IF ~elem.has_source \/ ~elem.has_target THEN Raise("KeyError")
         ELSE /\ edges' = Append(edges, [source |-> elem.source, target |-> elem.target,
                                          label |-> Lower(Strip(elem.label))])
              /\ UNCHANGED <<nodes, error, pc>>
  /\ UNCHANGED <<xml, generic>>
  /\ UNCHANGED runVars

  /\ UNCHANGED workerVars
\* return nodes, edges
ParseReturn ==
  /\ pc = "parse_loop"
  /\ Len(nodes) = Len(xml.node_elems)
  /\ Len(edges) = Len(xml.edge_elems)
  /\ pc' = "parse_returned"
  /\ UNCHANGED <<xml, generic, error, nodes, edges>>
  /\ UNCHANGED runVars

  /\ UNCHANGED workerVars
(***************************************************************************)
(* traverser/graph_traverser.py                                            *)
(***************************************************************************)
StartShapes == {<<"s","t","a","r","t","1">>, <<"t","e","r","m","i","n","a","t","o","r">>, <<"e","l","l","i","p","s","e">>}

IsStartNode(n) ==
  \/ Contains(Lower(n.label), <<"s","t","a","r","t">>)
  \/ Lower(n.shape) \in StartShapes

\* find_start_node: [some, id]; some = FALSE is None
find_start_node(ns) ==
  LET hits == {i \in 1..Len(ns) : IsStartNode(ns[i])}
  IN  IF hits # {}
        THEN [some |-> TRUE, id |-> ns[CHOOSE i \in hits : \A j \in hits : i <= j].id]
        ELSE IF ns # <<>> THEN [some |-> TRUE, id |-> ns[1].id]
                          ELSE [some |-> FALSE, id |-> ""]

\* Python truth of an optional string: None and "" are false
Falsy(r) == ~r.some \/ r.id = ""

\* build_adjacency: source -> list of targets, in edge order
build_adjacency(es) ==
  [u \in {es[i].source : i \in 1..Len(es)} |->
     LET sel == SelectSeq(es, LAMBDA e : e.source = u)
     IN  [i \in 1..Len(sel) |-> sel[i].target]]

\* adj.get(current, [])
AdjGet(adj, u) == IF u \in DOMAIN adj THEN adj[u] ELSE <<>>

VisitCap == 3

\* a guard that admits a node once more
MayEnqueueInclusive(count) == count <= VisitCap

\* the guard of the neighbour loop
MayEnqueue(count) == count < VisitCap

\* reading the head of the deque without removing it
PopleftKeeps(q) == q

\* queue.popleft(): what is left in the deque
Popleft(q) == Tail(q)

\* the neighbour loop of one iteration of the while loop
RECURSIVE Expand(_, _, _)
Expand(st, nbrs, i) ==
  IF i > Len(nbrs) THEN st
  ELSE LET v == nbrs[i]
       IN  IF MayEnqueue(st.visit_count[v])
             THEN Expand([queue       |-> Append(st.queue, v),
                          visit_count |-> [st.visit_count EXCEPT ![v] = @ + 1],
                          pushes      |-> [st.pushes EXCEPT ![v] = @ + 1]],
                         nbrs, i + 1)
             ELSE Expand(st, nbrs, i + 1)

\* all orders in which a set can be listed
Listings(S) ==
  {f \in [1..Cardinality(S) -> S] : \A i, j \in 1..Cardinality(S) : i # j => f[i] # f[j]}

\* list(all_node_ids - set(order)): Python leaves the iteration order of a set
\* of strings to the hash seed of the process
Unreachable(ns, ord) == NodeIds(ns) \ {ord[i] : i \in 1..Len(ord)}

NoDoc == [made |-> FALSE]
NoPrev == [ran |-> FALSE]

TraverseBegin ==
  /\ pc = "traverse"
  /\ LET start_node == find_start_node(nodes)
     IN  IF Falsy(start_node)
           THEN /\ order' = <<>>
                /\ legacy_roles' = <<>>
                /\ queue' = <<>>
                /\ pc' = "roles"
           ELSE /\ order' = <<>>
                /\ legacy_roles' = legacy_roles
                /\ queue' = <<start_node.id>>
                /\ pc' = "bfs"
  /\ visited' = {}
  /\ visit_count' = [v \in AllIds |-> 0]
  /\ pushes' = [v \in AllIds |-> 0]
  /\ UNCHANGED parseVars
  /\ UNCHANGED workerVars
  /\ UNCHANGED <<nodes, edges, template_file, scores, diagram_type, roles, doc, prev>>

BfsStep ==
  /\ pc = "bfs"
  /\ queue # <<>>
  /\ LET current == Head(queue)
         st == Expand([queue |-> Popleft(queue), visit_count |-> visit_count,
                       pushes |-> pushes],
                      AdjGet(build_adjacency(edges), current), 1)
     IN  /\ visited' = visited \cup {current}
         /\ order' = IF current \notin visited THEN Append(order, current) ELSE order
         /\ queue' = st.queue
         /\ visit_count' = st.visit_count
         /\ pushes' = st.pushes
  /\ UNCHANGED parseVars
  /\ UNCHANGED workerVars
  /\ UNCHANGED <<nodes, edges, template_file, pc, scores, diagram_type, legacy_roles, roles, doc, prev>>

BfsDrained ==
  /\ pc = "bfs"
  /\ queue = <<>>
  /\ pc' = "unreachable"
  /\ UNCHANGED parseVars
  /\ UNCHANGED workerVars
  /\ UNCHANGED <<nodes, edges, template_file, scores, diagram_type, queue, visited, order,
                 visit_count, pushes, legacy_roles, roles, doc, prev>>

AppendUnreachable ==
  /\ pc = "unreachable"
  /\ \E tail \in Listings(Unreachable(nodes, order)) : order' = order \o tail
  /\ legacy_roles' = [id \in NodeIds(nodes) |-> "Unknown"]
  /\ pc' = "roles"
  /\ UNCHANGED parseVars
  /\ UNCHANGED workerVars
  /\ UNCHANGED <<nodes, edges, template_file, scores, diagram_type, queue, visited,
                 visit_count, pushes, roles, doc, prev>>

(***************************************************************************)
(* classifier/diagram_type.py                                              *)
(***************************************************************************)
uml_keywords == {<<"c","l","a","s","s">>, <<"a","t","t","r","i","b","u","t","e">>, <<"m","e","t","h","o","d">>, <<"<","<","i","n","t","e","r","f","a","c","e",">",">">>, <<"<","<","a","b","s","t","r","a","c","t",">",">">>}
flowchart_keywords ==
  {<<"s","t","a","r","t">>, <<"s","t","o","p">>, <<"i","n","p","u","t">>, <<"o","u","t","p","u","t">>, <<"d","e","c","i","s","i","o","n">>, <<"p","r","o","c","e","s","s">>, <<"e","n","d">>}
sequence_keywords == {<<"a","c","t","i","v","a","t","e">>, <<"d","e","a","c","t","i","v","a","t","e">>, <<"m","e","s","s","a","g","e">>, <<"r","e","t","u","r","n">>, <<"l","i","f","e","l","i","n","e">>}
er_keywords == {<<"e","n","t","i","t","y">>, <<"r","e","l","a","t","i","o","n">>, <<"a","t","t","r","i","b","u","t","e">>, <<"p","r","i","m","a","r","y"," ","k","e","y">>, <<"f","o","r","e","i","g","n"," ","k","e","y">>}
activity_keywords == {<<"a","c","t","i","v","i","t","y">>, <<"f","o","r","k">>, <<"j","o","i","n">>, <<"a","c","t","i","o","n">>, <<"s","w","i","m","l","a","n","e">>}

\* the keys of the scores dict, in insertion order
TypeOrder ==
  <<"UML Class Diagram", "Flowchart", "UML Sequence Diagram", "ER Diagram",
    "UML Activity Diagram">>

ZeroScores == [t \in {TypeOrder[i] : i \in 1..Len(TypeOrder)} |-> 0]

Bump(sc, t, cond, by) == IF cond THEN [sc EXCEPT ![t] = @ + by] ELSE sc

\* a keyword step that adds 2 for every keyword found in the label
ScoreNodePerKeyword(sc, n) ==
  LET label == Lower(n.label)
      shape == Lower(n.shape)
      hits(kws) == Cardinality({k \in kws : Contains(label, k)})
      s1 == IF shape \in {<<"d","i","a","m","o","n","d">>, <<"p","a","r","a","l","l","e","l","o","g","r","a","m">>, <<"e","l","l","i","p","s","e">>, <<"d","o","c","u","m","e","n","t">>,
                          <<"o","f","f","p","a","g","e","c","o","n","n","e","c","t","o","r">>}
              THEN Bump(sc, "Flowchart", TRUE, 2)
            ELSE IF shape \in {<<"r","e","c","t","a","n","g","l","e">>, <<"r","o","u","n","d","r","e","c","t","a","n","g","l","e">>}
              THEN Bump(Bump(sc, "Flowchart", TRUE, 1), "UML Class Diagram", TRUE, 1)
            ELSE IF shape = <<"h","e","x","a","g","o","n">>
              THEN Bump(sc, "UML Activity Diagram", TRUE, 2)
            ELSE sc
      s2 == Bump(s1, "Flowchart", TRUE, 2 * hits(flowchart_keywords))
      s3 == Bump(s2, "UML Class Diagram", TRUE, 2 * hits(uml_keywords))
      s4 == Bump(s3, "UML Sequence Diagram", TRUE, 2 * hits(sequence_keywords))
      s5 == Bump(s4, "ER Diagram", TRUE, 2 * hits(er_keywords))
      s6 == Bump(s5, "UML Activity Diagram", TRUE, 2 * hits(activity_keywords))
      s7 == Bump(s6, "UML Class Diagram",
                 \/ Contains(label, <<":",":">>)
                 \/ (Contains(label, <<"c","l","a","s","s">>) /\ Contains(label, <<"{">>)
                       /\ Contains(label, <<"}">>)),
                 3)
  IN  Bump(s7, "UML Class Diagram",
           Contains(label, <<"(">>) /\ Contains(label, <<")">>) /\ Contains(label, <<":">>), 2)

\* steps 1-3 of the loop body, for one node
ScoreNode(sc, n) ==
  LET label == Lower(n.label)
      shape == Lower(n.shape)
      s1 == IF shape \in {<<"d","i","a","m","o","n","d">>, <<"p","a","r","a","l","l","e","l","o","g","r","a","m">>, <<"e","l","l","i","p","s","e">>, <<"d","o","c","u","m","e","n","t">>,
                          <<"o","f","f","p","a","g","e","c","o","n","n","e","c","t","o","r">>}
              THEN Bump(sc, "Flowchart", TRUE, 2)
            ELSE IF shape \in {<<"r","e","c","t","a","n","g","l","e">>, <<"r","o","u","n","d","r","e","c","t","a","n","g","l","e">>}
              THEN Bump(Bump(sc, "Flowchart", TRUE, 1), "UML Class Diagram", TRUE, 1)
            ELSE IF shape = <<"h","e","x","a","g","o","n">>
              THEN Bump(sc, "UML Activity Diagram", TRUE, 2)
            ELSE sc
      s2 == Bump(s1, "Flowchart", ContainsAny(label, flowchart_keywords), 2)
      s3 == Bump(s2, "UML Class Diagram", ContainsAny(label, uml_keywords), 2)
      s4 == Bump(s3, "UML Sequence Diagram", ContainsAny(label, sequence_keywords), 2)
      s5 == Bump(s4, "ER Diagram", ContainsAny(label, er_keywords), 2)
      s6 == Bump(s5, "UML Activity Diagram", ContainsAny(label, activity_keywords), 2)
      s7 == Bump(s6, "UML Class Diagram",
                 \/ Contains(label, <<":",":">>)
                 \/ (Contains(label, <<"c","l","a","s","s">>) /\ Contains(label, <<"{">>)
                       /\ Contains(label, <<"}">>)),
                 3)
  IN  Bump(s7, "UML Class Diagram",
           Contains(label, <<"(">>) /\ Contains(label, <<")">>) /\ Contains(label, <<":">>), 2)

RECURSIVE ScoreNodes(_, _, _)
ScoreNodes(sc, ns, i) ==
  IF i > Len(ns) THEN sc ELSE ScoreNodes(ScoreNode(sc, ns[i]), ns, i + 1)

Scores(ns) == ScoreNodes(ZeroScores, ns, 1)

\* max(scores.items(), key=...): the first key, in insertion order, of the
\* highest score
TopIndex(sc) ==
  CHOOSE i \in 1..Len(TypeOrder) :
    /\ \A j \in 1..Len(TypeOrder) : sc[TypeOrder[j]] <= sc[TypeOrder[i]]
    /\ \A j \in 1..(i - 1) : sc[TypeOrder[j]] < sc[TypeOrder[i]]

\* sorted(set(scores.values()), reverse=True)[1]: the second distinct score
SecondScoreDistinct(sc) ==
  LET t == TopIndex(sc)
      rest == {sc[TypeOrder[j]] : j \in 1..Len(TypeOrder)} \ {sc[TypeOrder[t]]}
  IN  IF rest = {} THEN sc[TypeOrder[t]] ELSE CHOOSE v \in rest : \A w \in rest : w <= v

\* sorted(scores.values(), reverse=True)[1]
SecondScore(sc) ==
  LET t == TopIndex(sc)
      rest == {sc[TypeOrder[j]] : j \in (1..Len(TypeOrder)) \ {t}}
  IN  CHOOSE v \in rest : \A w \in rest : w <= v

\* a decision without the test for a zero top score
DecideNoZeroTest(sc) ==
  LET top_type == TypeOrder[TopIndex(sc)]
      top_score == sc[top_type]
      second_score == SecondScore(sc)
  IN  IF /\ top_type = "UML Class Diagram"
         /\ sc["Flowchart"] > 2
         /\ top_score - sc["Flowchart"] <= 1
        THEN "Flowchart"
      ELSE IF top_score - second_score >= 2 THEN top_type
      ELSE IF top_score >= 4 THEN top_type
      ELSE "Flowchart"

\* a decision that tests the strength of the top score before the
\* UML-Class/Flowchart disambiguation
DecideStrongFirst(sc) ==
  LET top_type == TypeOrder[TopIndex(sc)]
      top_score == sc[top_type]
      second_score == SecondScore(sc)
  IN  IF top_score = 0 THEN "Unknown"
      ELSE IF top_score - second_score >= 2 THEN top_type
      ELSE IF top_score >= 4 THEN top_type
      ELSE "Flowchart"

\* step 4: the final decision
Decide(sc) ==
  LET top_type == TypeOrder[TopIndex(sc)]
      top_score == sc[top_type]
      second_score == SecondScore(sc)
  IN  IF top_score = 0 THEN "Unknown"
      ELSE IF /\ top_type = "UML Class Diagram"
              /\ sc["Flowchart"] > 2
              /\ top_score - sc["Flowchart"] <= 1
        THEN "Flowchart"
      ELSE IF top_score - second_score >= 2 THEN top_type
      ELSE IF top_score >= 4 THEN top_type
      ELSE "Flowchart"

classify_diagram_type(ns) == Decide(Scores(ns))

(***************************************************************************)
(* classifier/shape_label.py                                               *)
(***************************************************************************)
Letters == DOMAIN ToLower \cup {ToLower[c] : c \in DOMAIN ToLower}
Digits == {"0", "1", "2", "3", "4", "5", "6", "7", "8", "9"}
WordChars == Letters \cup Digits \cup {"_"}

\* str.isidentifier on the lowercased label
IsIdentifier(s) ==
  /\ s # <<>>
  /\ s[1] \in Letters \cup {"_"}
  /\ \A i \in 1..Len(s) : s[i] \in WordChars

\* re.match(r"^\w+\(.*\)$", label)
MatchesMethod(s) ==
  \E i \in 1..(Len(s) - 2) :
    /\ \A j \in 1..i : s[j] \in WordChars
    /\ s[i + 1] = "("
    /\ s[Len(s)] = ")"
    /\ \A j \in (i + 2)..(Len(s) - 1) : s[j] # "\n"

\* a fallback that leaves the initial role in place
FlowchartFallbackUnset(label) ==
  IF Contains(label, <<"p","r","i","n","t">>) THEN <<"O","u","t","p","u","t">>
  ELSE IF Contains(label, <<"i","n","p","u","t">>) \/ Contains(label, <<"s","c","a","n">>) THEN <<"I","n","p","u","t">>
  ELSE <<"U","n","k","n","o","w","n">>

\* the role the Flowchart cascade falls back to when no rule matches
FlowchartFallback(label) ==
  IF Contains(label, <<"p","r","i","n","t">>) THEN <<"O","u","t","p","u","t">>
  ELSE IF Contains(label, <<"i","n","p","u","t">>) \/ Contains(label, <<"s","c","a","n">>) THEN <<"I","n","p","u","t">>
  ELSE <<"P","r","o","c","e","s","s">>

\* a cascade that tests the End rule before the Start rule
FlowchartRoleEndFirst(label, shape) ==
  IF Contains(label, <<"e","n","d">>) \/ Contains(label, <<"s","t","o","p">>)
    THEN <<"E","n","d">>
  ELSE IF shape \in {<<"e","l","l","i","p","s","e">>, <<"t","e","r","m","i","n","a","t","o","r">>, <<"s","t","a","r","t","1">>} \/ Contains(label, <<"s","t","a","r","t">>)
    THEN <<"S","t","a","r","t">>
  ELSE IF \/ shape = <<"d","i","a","m","o","n","d">>
          \/ Contains(label, <<"?">>)
          \/ ContainsAny(label, {<<"i","f">>, <<"c","h","e","c","k">>, <<"c","o","m","p","a","r","e">>, <<"d","o">>, <<"c","a","n">>,
                                 <<"s","h","o","u","l","d">>, <<"e","l","s","e">>})
    THEN <<"D","e","c","i","s","i","o","n">>
  ELSE IF ContainsAny(label, {<<"r","e","p","e","a","t">>, <<"l","o","o","p">>, <<"a","g","a","i","n">>, <<"w","h","i","l","e">>, <<"f","o","r">>})
    THEN <<"L","o","o","p">>
  ELSE IF \/ shape \in {<<"p","a","r","a","l","l","e","l","o","g","r","a","m">>, <<"i","n","p","u","t">>, <<"d","o","c","u","m","e","n","t">>}
          \/ ContainsAny(label, {<<"i","n","p","u","t">>, <<"s","c","a","n">>, <<"r","e","a","d">>, <<"e","n","t","e","r">>})
    THEN <<"I","n","p","u","t">>
  ELSE IF \/ shape \in {<<"o","u","t","p","u","t">>, <<"d","i","s","p","l","a","y">>}
          \/ ContainsAny(label, {<<"p","r","i","n","t">>, <<"d","i","s","p","l","a","y">>, <<"o","u","t","p","u","t">>, <<"s","h","o","w">>})
    THEN <<"O","u","t","p","u","t">>
  ELSE IF shape \in {<<"r","e","c","t","a","n","g","l","e">>, <<"r","o","u","n","d","r","e","c","t","a","n","g","l","e">>, <<"b","o","x">>}
    THEN <<"P","r","o","c","e","s","s">>
  ELSE IF shape \in {<<"o","f","f","p","a","g","e","c","o","n","n","e","c","t","o","r">>, <<"j","u","m","p">>, <<"c","o","n","n","e","c","t","o","r">>}
    THEN <<"J","u","m","p">>
  ELSE FlowchartFallback(label)

FlowchartRole(label, shape) ==
  IF shape \in {<<"e","l","l","i","p","s","e">>, <<"t","e","r","m","i","n","a","t","o","r">>, <<"s","t","a","r","t","1">>} \/ Contains(label, <<"s","t","a","r","t">>)
    THEN <<"S","t","a","r","t">>
  ELSE IF Contains(label, <<"e","n","d">>) \/ Contains(label, <<"s","t","o","p">>)
    THEN <<"E","n","d">>
  ELSE IF \/ shape = <<"d","i","a","m","o","n","d">>
          \/ Contains(label, <<"?">>)
          \/ ContainsAny(label, {<<"i","f">>, <<"c","h","e","c","k">>, <<"c","o","m","p","a","r","e">>, <<"d","o">>, <<"c","a","n">>,
                                 <<"s","h","o","u","l","d">>, <<"e","l","s","e">>})
    THEN <<"D","e","c","i","s","i","o","n">>
  ELSE IF ContainsAny(label, {<<"r","e","p","e","a","t">>, <<"l","o","o","p">>, <<"a","g","a","i","n">>, <<"w","h","i","l","e">>, <<"f","o","r">>})
    THEN <<"L","o","o","p">>
  ELSE IF \/ shape \in {<<"p","a","r","a","l","l","e","l","o","g","r","a","m">>, <<"i","n","p","u","t">>, <<"d","o","c","u","m","e","n","t">>}
          \/ ContainsAny(label, {<<"i","n","p","u","t">>, <<"s","c","a","n">>, <<"r","e","a","d">>, <<"e","n","t","e","r">>})
    THEN <<"I","n","p","u","t">>
  ELSE IF \/ shape \in {<<"o","u","t","p","u","t">>, <<"d","i","s","p","l","a","y">>}
          \/ ContainsAny(label, {<<"p","r","i","n","t">>, <<"d","i","s","p","l","a","y">>, <<"o","u","t","p","u","t">>, <<"s","h","o","w">>})
    THEN <<"O","u","t","p","u","t">>
  ELSE IF shape \in {<<"r","e","c","t","a","n","g","l","e">>, <<"r","o","u","n","d","r","e","c","t","a","n","g","l","e">>, <<"b","o","x">>}
    THEN <<"P","r","o","c","e","s","s">>
  ELSE IF shape \in {<<"o","f","f","p","a","g","e","c","o","n","n","e","c","t","o","r">>, <<"j","u","m","p">>, <<"c","o","n","n","e","c","t","o","r">>}
    THEN <<"J","u","m","p">>
  ELSE FlowchartFallback(label)

UmlClassRole(label, shape) ==
  IF ContainsAny(label, {<<"<","<","i","n","t","e","r","f","a","c","e",">",">">>, <<"<","<","a","b","s","t","r","a","c","t",">",">">>, <<"i","n","t","e","r","f","a","c","e">>, <<"a","b","s","t","r","a","c","t">>})
    THEN <<"I","n","t","e","r","f","a","c","e">>
  ELSE IF StartsWith(label, <<"c","l","a","s","s">>) \/ Contains(label, <<"c","l","a","s","s">>)
    THEN <<"C","l","a","s","s">>
  ELSE IF Contains(label, <<"{">>) /\ Contains(label, <<"}">>)
    THEN <<"C","l","a","s","s">>
  ELSE IF MatchesMethod(label)
    THEN <<"M","e","t","h","o","d">>
  ELSE IF \/ Contains(label, <<":">>)
          \/ Contains(label, <<"=">>)
          \/ ContainsAny(label, {<<"i","n","t">>, <<"s","t","r">>, <<"f","l","o","a","t">>, <<"b","o","o","l">>, <<"s","t","r","i","n","g">>,
                                 <<"b","o","o","l","e","a","n">>, <<"v","o","i","d">>})
    THEN <<"A","t","t","r","i","b","u","t","e">>
  ELSE IF shape = <<"r","e","c","t","a","n","g","l","e">> /\ IsIdentifier(label)
    THEN <<"A","t","t","r","i","b","u","t","e">>
  ELSE <<"U","n","k","n","o","w","n"," ","U","M","L"," ","P","a","r","t">>

SequenceRole(label) ==
  IF Contains(label, <<"l","i","f","e","l","i","n","e">>) THEN <<"L","i","f","e","l","i","n","e">>
  ELSE IF Contains(label, <<"m","e","s","s","a","g","e">>) \/ Contains(label, <<"-","-",">">>) THEN <<"M","e","s","s","a","g","e">>
  ELSE <<"A","c","t","o","r">>

ErRole(label) ==
  IF Contains(label, <<"e","n","t","i","t","y">>) THEN <<"E","n","t","i","t","y">>
  ELSE IF Contains(label, <<"a","t","t","r","i","b","u","t","e">>) THEN <<"A","t","t","r","i","b","u","t","e">>
  ELSE IF Contains(label, <<"r","e","l","a","t","i","o","n">>) \/ Contains(label, <<"r","e","l","a","t","i","o","n","s","h","i","p">>)
    THEN <<"R","e","l","a","t","i","o","n","s","h","i","p">>
  ELSE <<"U","n","k","n","o","w","n">>

\* a cascade that ends in an else branch giving Action
ActivityRoleElseAction(label) ==
  IF Contains(label, <<"f","o","r","k">>) THEN <<"F","o","r","k">>
  ELSE IF Contains(label, <<"j","o","i","n">>) THEN <<"J","o","i","n">>
  ELSE IF Contains(label, <<"s","w","i","m","l","a","n","e">>) THEN <<"S","w","i","m","l","a","n","e">>
  ELSE <<"A","c","t","i","o","n">>

ActivityRole(label) ==
  IF Contains(label, <<"f","o","r","k">>) THEN <<"F","o","r","k">>
  ELSE IF Contains(label, <<"j","o","i","n">>) THEN <<"J","o","i","n">>
  ELSE IF Contains(label, <<"a","c","t","i","o","n">>) \/ Contains(label, <<"a","c","t","i","v","i","t","y">>) THEN <<"A","c","t","i","o","n">>
  ELSE IF Contains(label, <<"s","w","i","m","l","a","n","e">>) THEN <<"S","w","i","m","l","a","n","e">>
  ELSE <<"U","n","k","n","o","w","n">>

\* the body of the loop over the nodes: the role of one node
NodeRole(n, dtype) ==
  LET label == Lower(Strip(n.label))
      shape == Lower(Strip(n.shape))
  IN  IF dtype = "Flowchart" THEN FlowchartRole(label, shape)
      ELSE IF dtype = "UML Class Diagram" THEN UmlClassRole(label, shape)
      ELSE IF dtype = "UML Sequence Diagram" THEN SequenceRole(label)
      ELSE IF dtype = "ER Diagram" THEN ErRole(label)
      ELSE IF dtype = "UML Activity Diagram" THEN ActivityRole(label)
      ELSE <<"U","n","k","n","o","w","n">>

\* node_roles[node.id] = role, for the nodes in list order: a later node of
\* the same id overwrites an earlier one
classify_node_roles(ns, dtype) ==
  [id \in NodeIds(ns) |->
     NodeRole(ns[CHOOSE i \in 1..Len(ns) :
                   ns[i].id = id /\ \A j \in (i + 1)..Len(ns) : ns[j].id # id],
              dtype)]

ClassifyType ==
  /\ pc = "classify_type"
  /\ scores' = Scores(nodes)
  /\ diagram_type' = Decide(scores')
  /\ pc' = "traverse"
  /\ UNCHANGED parseVars
  /\ UNCHANGED workerVars
  /\ UNCHANGED <<nodes, edges, template_file, queue, visited, order, visit_count,
                 pushes, legacy_roles, roles, doc, prev>>

ClassifyRoles ==
  /\ pc = "roles"
  /\ roles' = classify_node_roles(nodes, diagram_type)
  /\ pc' = "interpret"
  /\ UNCHANGED parseVars
  /\ UNCHANGED workerVars
  /\ UNCHANGED <<nodes, edges, template_file, scores, diagram_type, queue, visited, order,
                 visit_count, pushes, legacy_roles, doc, prev>>

(***************************************************************************)
(* interpreter/interpreter.py                                              *)
(***************************************************************************)
\* os.path.exists(TEMPLATE_PATH) is false
NoFile == [state |-> "absent", table |-> <<>>]

\* load_logic_templates: {} without the file, the table of a file that holds
\* JSON; open() and json.load() raise for a file that cannot be read or
\* holds no JSON
load_logic_templates(file) ==
  CASE file.state = "absent" -> [raised |-> FALSE, table |-> <<>>]
    [] file.state = "json" -> [raised |-> FALSE, table |-> file.table]
    [] file.state \in {"malformed", "unreadable"} -> [raised |-> TRUE, table |-> <<>>]

NoLogic == [some |-> FALSE, logic |-> ""]

\* templates.get(role, [])
RoleTemplates(tpl, role) == IF role \in DOMAIN tpl THEN tpl[role] ELSE <<>>

\* the logic of the first of the entries listed, None when there is none
FirstLogic(entries, hits) ==
  IF hits = {} THEN NoLogic
  ELSE [some |-> TRUE,
        logic |-> entries[CHOOSE i \in hits : \A j \in hits : i <= j].logic]

\* pass 1: the entries with a keyword equal to the label
ExactHits(entries, label_lower) ==
  {i \in 1..Len(entries) :
     \E k \in 1..Len(entries[i].keywords) : label_lower = Lower(entries[i].keywords[k])}

\* pass 2: the entries with a keyword inside the label
PartialHits(entries, label_lower) ==
  {i \in 1..Len(entries) :
     \E k \in 1..Len(entries[i].keywords) :
       Contains(label_lower, Lower(entries[i].keywords[k]))}

\* one pass: the first entry with a keyword equal to or inside the label
match_template_one_pass(label, role, tpl) ==
  LET role_templates == RoleTemplates(tpl, role)
  IN  FirstLogic(role_templates, PartialHits(role_templates, Lower(label)))

match_template(label, role, tpl) ==
  LET label_lower == Lower(label)
      role_templates == RoleTemplates(tpl, role)
      exact == FirstLogic(role_templates, ExactHits(role_templates, label_lower))
  IN  IF exact.some THEN exact
      ELSE FirstLogic(role_templates, PartialHits(role_templates, label_lower))

\* id_to_node: the last node of the list with the id
HasNode(ns, id) == id \in NodeIds(ns)
IdToNode(ns, id) ==
  ns[CHOOSE i \in 1..Len(ns) : ns[i].id = id /\ \A j \in (i + 1)..Len(ns) : ns[j].id # id]

\* a next_map that assigns instead of appending: the last edge only
NextMapLastOnly(es, id) ==
  LET sel == SelectSeq(es, LAMBDA e : e.source = id)
  IN  IF sel = <<>> THEN <<>>
      ELSE <<[target_id |-> sel[Len(sel)].target,
              label |-> Lower(Strip(sel[Len(sel)].label))]>>

\* next_map.get(id, []): the outgoing edges of a node, in edge order
NextMap(es, id) ==
  LET sel == SelectSeq(es, LAMBDA e : e.source = id)
  IN  [i \in 1..Len(sel) |->
         [target_id |-> sel[i].target, label |-> Lower(Strip(sel[i].label))]]

\* roles.get(id, "Unknown")
\* a lookup that finds no role
RolesGetUnknown(rs, id) == <<"U","n","k","n","o","w","n">>

RolesGet(rs, id) == IF id \in DOMAIN rs THEN rs[id] ELSE <<"U","n","k","n","o","w","n">>

\* a condition that knows the words but not their one-letter forms
ConditionWordsOnly(condition_raw) ==
  IF condition_raw \in {<<"y","e","s">>, <<"t","r","u","e">>} THEN <<"y","e","s">>
  ELSE IF condition_raw \in {<<"n","o">>, <<"f","a","l","s","e">>} THEN <<"n","o">>
  ELSE <<>>

\* the condition of a branch from the edge label of next_map
Condition(condition_raw) ==
  IF condition_raw \in {<<"y","e","s">>, <<"t","r","u","e">>, <<"y">>} THEN <<"y","e","s">>
  ELSE IF condition_raw \in {<<"n","o">>, <<"f","a","l","s","e">>, <<"n">>} THEN <<"n","o">>
  ELSE <<>>

\* whether the branch loop keeps an outgoing edge
KeepsBranch(ns, out) == HasNode(ns, out.target_id)

Branches(ns, next_nodes) ==
  LET kept == SelectSeq(next_nodes, LAMBDA out : KeepsBranch(ns, out))
  IN  [i \in 1..Len(kept) |->
         [condition_label |-> kept[i].label,
          condition       |-> Condition(kept[i].label),
          target_node_id  |-> kept[i].target_id,
          target_label    |-> Strip(IdToNode(ns, kept[i].target_id).label)]]

\* a chain whose last branch leaves the default of the step dict in place
FlowTypeKeepsDefault(role_lower) ==
  IF role_lower = <<"s","t","a","r","t">> THEN <<"s","t","a","r","t">>
  ELSE IF role_lower = <<"e","n","d">> THEN <<"e","n","d">>
  ELSE IF role_lower = <<"d","e","c","i","s","i","o","n">> THEN <<"d","e","c","i","s","i","o","n">>
  ELSE IF role_lower = <<"l","o","o","p">> THEN <<"l","o","o","p">>
  ELSE IF role_lower \in {<<"i","n","p","u","t">>, <<"o","u","t","p","u","t">>, <<"p","r","o","c","e","s","s">>, <<"t","a","s","k">>} THEN role_lower
  ELSE IF role_lower = <<"j","u","m","p">> THEN <<"j","u","m","p">>
  ELSE IF role_lower \in {<<"c","l","a","s","s">>, <<"i","n","t","e","r","f","a","c","e">>, <<"m","e","t","h","o","d">>, <<"a","t","t","r","i","b","u","t","e">>}
    THEN <<"u","m","l","_","e","l","e","m","e","n","t">>
  ELSE <<"a","c","t","i","o","n">>

FlowType(role_lower) ==
  IF role_lower = <<"s","t","a","r","t">> THEN <<"s","t","a","r","t">>
  ELSE IF role_lower = <<"e","n","d">> THEN <<"e","n","d">>
  ELSE IF role_lower = <<"d","e","c","i","s","i","o","n">> THEN <<"d","e","c","i","s","i","o","n">>
  ELSE IF role_lower = <<"l","o","o","p">> THEN <<"l","o","o","p">>
  ELSE IF role_lower \in {<<"i","n","p","u","t">>, <<"o","u","t","p","u","t">>, <<"p","r","o","c","e","s","s">>, <<"t","a","s","k">>} THEN role_lower
  ELSE IF role_lower = <<"j","u","m","p">> THEN <<"j","u","m","p">>
  ELSE IF role_lower \in {<<"c","l","a","s","s">>, <<"i","n","t","e","r","f","a","c","e">>, <<"m","e","t","h","o","d">>, <<"a","t","t","r","i","b","u","t","e">>}
    THEN <<"u","m","l","_","e","l","e","m","e","n","t">>
  ELSE <<"g","e","n","e","r","i","c","_","a","c","t","i","o","n">>

\* a next_id guard that looks at the number of edges only
HasNextIdAnyRole(next_nodes, role_lower) == Len(next_nodes) = 1

\* if len(next_nodes) == 1 and role_lower not in ("decision", "end")
HasNextId(next_nodes, role_lower) ==
  Len(next_nodes) = 1 /\ role_lower \notin {<<"d","e","c","i","s","i","o","n">>, <<"e","n","d">>}

\* the step visit_node builds for a node of the list
Step(ns, es, rs, tpl, id) ==
  LET node == IdToNode(ns, id)
      label == Strip(node.label)
      role == RolesGet(rs, node.id)
      next_nodes == NextMap(es, node.id)
      role_lower == Lower(role)
      base == [node_id        |-> node.id,
               label          |-> label,
               role           |-> role,
               type           |-> Strip(node.shape),
               logic_template |-> match_template(label, role, tpl),
               flow_type      |-> FlowType(role_lower)]
      withBranches == IF role_lower = <<"d","e","c","i","s","i","o","n">>
                        THEN base @@ [branches |-> Branches(ns, next_nodes)]
                        ELSE base
  IN  IF HasNextId(next_nodes, role_lower)
        THEN withBranches @@ [next_id |-> next_nodes[1].target_id]
        ELSE withBranches

\* a visit that does not descend into the outgoing edges
VisitOutsNoDescent(st, ns, es, rs, tpl, outs, i) == st

\* visit_node: st = [visited, flow]
RECURSIVE visit_node(_, _, _, _, _, _), VisitOuts(_, _, _, _, _, _, _)
visit_node(st, ns, es, rs, tpl, id) ==
  IF id \in st.visited THEN st
  ELSE LET seen == [st EXCEPT !.visited = @ \cup {id}]
       IN  IF ~HasNode(ns, id) THEN seen
           ELSE VisitOuts([seen EXCEPT !.flow = Append(@, Step(ns, es, rs, tpl, id))],
                          ns, es, rs, tpl, NextMap(es, id), 1)

VisitOuts(st, ns, es, rs, tpl, outs, i) ==
  IF i > Len(outs) THEN st
  ELSE VisitOuts(visit_node(st, ns, es, rs, tpl, outs[i].target_id),
                 ns, es, rs, tpl, outs, i + 1)

\* for nid in traversal_order: visit_node(nid)
RECURSIVE VisitOrder(_, _, _, _, _, _, _)
VisitOrder(st, ns, es, rs, tpl, ord, i) ==
  IF i > Len(ord) THEN st
  ELSE VisitOrder(visit_node(st, ns, es, rs, tpl, ord[i]), ns, es, rs, tpl, ord, i + 1)

interpret_flowchart(ns, es, rs, ord, dtype, tpl) ==
  [made           |-> TRUE,
   diagram_type   |-> dtype,
   nodes          |-> [i \in 1..Len(ns) |->
                         [id    |-> ns[i].id,
                          label |-> Strip(ns[i].label),
                          shape |-> Strip(ns[i].shape),
                          role  |-> RolesGet(rs, ns[i].id)]],
   edges          |-> [i \in 1..Len(es) |->
                         [source_id |-> es[i].source,
                          target_id |-> es[i].target,
                          label     |-> Strip(es[i].label)]],
   execution_flow |-> VisitOrder([visited |-> {}, flow |-> <<>>],
                                 ns, es, rs, tpl, ord, 1).flow]

\* an interpreter that consumes the traversal order it is given
InterpretDrainsOrder ==
  /\ pc = "interpret"
  /\ LET loaded == load_logic_templates(template_file)
     IN  IF loaded.raised
           THEN pc' = "interpret_raised" /\ doc' = doc
           ELSE /\ doc' = interpret_flowchart(nodes, edges, roles, order, diagram_type,
                                              loaded.table)
                /\ pc' = "done"
  /\ order' = <<>>
  /\ UNCHANGED parseVars
  /\ UNCHANGED workerVars
  /\ UNCHANGED <<nodes, edges, template_file, scores, diagram_type, queue, visited,
                 visit_count, pushes, legacy_roles, roles, prev>>

Interpret ==
  /\ pc = "interpret"
  /\ LET loaded == load_logic_templates(template_file)
     IN  IF loaded.raised
           THEN pc' = "interpret_raised" /\ doc' = doc
           ELSE /\ doc' = interpret_flowchart(nodes, edges, roles, order, diagram_type,
                                              loaded.table)
                /\ pc' = "done"
  /\ UNCHANGED parseVars
  /\ UNCHANGED workerVars
  /\ UNCHANGED <<nodes, edges, template_file, scores, diagram_type, queue, visited, order,
                 visit_count, pushes, legacy_roles, roles, prev>>

\* the same file is processed again (src/ui/UI.py, 579-583): the results of
\* the run that ended are kept aside for comparison
Rerun ==
  /\ pc = "done"
  /\ prev' = [ran |-> TRUE, diagram_type |-> diagram_type, order |-> order,
              roles |-> roles, doc |-> doc]
  /\ pc' = "classify_type"
  /\ scores' = ZeroScores
  /\ diagram_type' = ""
  /\ queue' = <<>>
  /\ visited' = {}
  /\ order' = <<>>
  /\ visit_count' = <<>>
  /\ pushes' = <<>>
  /\ legacy_roles' = <<>>
  /\ roles' = <<>>
  /\ doc' = NoDoc
  /\ UNCHANGED parseVars
  /\ UNCHANGED workerVars
  /\ UNCHANGED <<nodes, edges, template_file>>

(***************************************************************************)
(* ui/UI.py: the background worker.                                        *)
(***************************************************************************)
\* how many tasks are put, and how often the script body is executed
MaxTasks == 2
MaxRuns == 3

DiagramHashes == {"h1", "h2"}
Prompts == {"p1"}

\* no task in hand, and the task None
NoTask == [kind |-> "none"]
NoneTask == [kind |-> "None"]

\* the state after the first execution of the script body: lines 149-150 have
\* made the queue and the dict, lines 189-191 have started the thread and
\* set ollama_worker_started.
\*   script_run        the number of the current execution of the script body
\*   namespace         whether an execution gets module globals of its own
\*   ollama_queue      the Queue made on line 149, one per execution
\*   unfinished_tasks  the tasks put and not yet marked done, per queue
\*   ollama_results    the dict made on line 150, one per execution
\*   pc, task          where the thread is, and the task in its hand
\*   put_log, taken, done_calls   history: the tasks put, how often each was
\*                     taken, and the task_done calls that returned for it
WorkerStarted(ns) ==
  worker = [script_run       |-> 1,
            namespace        |-> ns,
            ollama_queue     |-> <<<<>>>>,
            unfinished_tasks |-> <<0>>,
            ollama_results   |-> <<<<>>>>,
            pc               |-> "get",
            task             |-> NoTask,
            put_log          |-> <<>>,
            taken            |-> [k \in 1..MaxTasks |-> 0],
            done_calls       |-> [k \in 1..MaxTasks |-> 0]]

\* the execution whose globals the names in ollama_worker are looked up in:
\* the one that started the thread when every execution has globals of its
\* own, the current one when all executions share them
WorkerRun == IF worker.namespace = "fresh" THEN 1 ELSE worker.script_run

\* the script body is executed again: lines 149-150 make a new queue and a
\* new dict; ollama_worker_started is in the session state, so lines 189-191
\* start no thread
ScriptRun ==
  /\ worker.script_run < MaxRuns
  /\ worker' = [worker EXCEPT !.script_run = @ + 1,
                              !.ollama_queue = Append(@, <<>>),
                              !.unfinished_tasks = Append(@, 0),
                              !.ollama_results = Append(@, <<>>)]
  /\ UNCHANGED <<nodes, edges, pc>>
  /\ UNCHANGED parseVars
  /\ UNCHANGED runVars

\* ollama_queue.put((diagram_hash, llm_prompt)), line 707: the Generate Code
\* button is drawn once "parsed" is in the session state, so never in the
\* first execution
PutTask ==
  /\ worker.script_run >= 2
  /\ Len(worker.put_log) < MaxTasks
  /\ \E h \in DiagramHashes, p \in Prompts :
       LET t == [kind |-> "task", diagram_hash |-> h, prompt |-> p,
                 serial |-> Len(worker.put_log) + 1, run |-> worker.script_run]
       IN  worker' = [worker EXCEPT
                        !.ollama_queue[worker.script_run] = Append(@, t),
                        !.unfinished_tasks[worker.script_run] = @ + 1,
                        !.put_log = Append(@, t)]
  /\ UNCHANGED <<nodes, edges, pc>>
  /\ UNCHANGED parseVars
  /\ UNCHANGED runVars

\* task = ollama_queue.get(timeout=1); if task is None: break.  On an empty
\* queue get raises queue.Empty and the loop goes round: no change
WorkerGet ==
  /\ worker.pc = "get"
  /\ worker.ollama_queue[WorkerRun] # <<>>
  /\ LET t == Head(worker.ollama_queue[WorkerRun])
     IN  IF t = NoneTask
           THEN worker' = [worker EXCEPT !.ollama_queue[WorkerRun] = Tail(@),
                                         !.pc = "stopped"]
           ELSE worker' = [worker EXCEPT !.ollama_queue[WorkerRun] = Tail(@),
                                         !.pc = "generate",
                                         !.task = t,
                                         !.taken[t.serial] = @ + 1]
  /\ UNCHANGED <<nodes, edges, pc>>
  /\ UNCHANGED parseVars
  /\ UNCHANGED runVars

\* the inner try: generate_code_with_ollama, extract_pure_code and
\* cache_generated_code return, or one of them raises and the handler stores
\* the error
Outcomes == {"returned", "generate_raised", "extract_raised", "cache_raised"}

WorkerGenerate ==
  /\ worker.pc = "generate"
  /\ \E outcome \in Outcomes :
       LET status == IF outcome = "returned" THEN "completed" ELSE "error"
           old == worker.ollama_results[WorkerRun]
       IN  worker' = [worker EXCEPT
                        !.ollama_results[WorkerRun] =
                           [h \in DOMAIN old \cup {worker.task.diagram_hash} |->
                              IF h = worker.task.diagram_hash THEN status ELSE old[h]],
                        !.pc = "task_done"]
  /\ UNCHANGED <<nodes, edges, pc>>
  /\ UNCHANGED parseVars
  /\ UNCHANGED runVars

\* ollama_queue.task_done(): on a queue with no unfinished task it raises
\* ValueError, which the outer handler logs before the loop goes round
WorkerTaskDone ==
  /\ worker.pc = "task_done"
  /\ IF worker.unfinished_tasks[WorkerRun] > 0
       THEN worker' = [worker EXCEPT !.unfinished_tasks[WorkerRun] = @ - 1,
                                     !.done_calls[worker.task.serial] = @ + 1,
                                     !.pc = "get",
                                     !.task = NoTask]
       ELSE worker' = [worker EXCEPT !.pc = "get", !.task = NoTask]
  /\ UNCHANGED <<nodes, edges, pc>>
  /\ UNCHANGED parseVars
  /\ UNCHANGED runVars

\* one session: the script body has run once, under either way of keeping
\* module globals; no diagram is in the pipeline
WorkerInit ==
  /\ nodes = <<>>
  /\ edges = <<>>
  /\ template_file = NoFile
  /\ xml = NoXml
  /\ generic = Unbound
  /\ error = ""
  /\ pc = "classify_type"
  /\ scores = ZeroScores
  /\ diagram_type = ""
  /\ queue = <<>>
  /\ visited = {}
  /\ order = <<>>
  /\ visit_count = <<>>
  /\ pushes = <<>>
  /\ legacy_roles = <<>>
  /\ roles = <<>>
  /\ doc = NoDoc
  /\ prev = NoPrev
  /\ \E ns \in {"fresh", "shared"} : WorkerStarted(ns)

WorkerNext ==
  \/ ScriptRun
  \/ PutTask
  \/ WorkerGet
  \/ WorkerGenerate
  \/ WorkerTaskDone

\* the thread is scheduled: each step of the loop that can be taken is taken
WorkerSpec ==
  /\ WorkerInit
  /\ [][WorkerNext]_vars
  /\ WF_vars(WorkerGet)
  /\ WF_vars(WorkerGenerate)
  /\ WF_vars(WorkerTaskDone)

(***************************************************************************)
(* Inputs.                                                                 *)
(***************************************************************************)
\* graph shapes: up to three bare nodes, one of them an ellipse, and every
\* edge list over their ids and the dangling id
ShapeNodes(ids, k, s) ==
  [i \in 1..k |-> [id |-> ids[i], label |-> <<>>,
                   shape |-> IF i = s THEN <<"e","l","l","i","p","s","e">> ELSE <<>>]]

ShapeEnds(ids, k) == {ids[i] : i \in 1..k} \cup {DanglingId}

\* the ids an edge starts at: an edge out of the dangling id is in the lists
\* over fewer than three nodes
ShapeSources(ids, k) ==
  {ids[i] : i \in 1..k} \cup (IF k < Len(ids) THEN {DanglingId} ELSE {})

ShapeInputs ==
  \E ids \in {<<"n1", "n2", "n3">>}, k \in 0..3 :
    \E s \in (IF k = 0 THEN {0} ELSE 1..k), m \in 0..MaxEdges :
      \E es \in [1..m -> [source : ShapeSources(ids, k), target : ShapeEnds(ids, k),
                          label : {<<>>}]] :
        /\ nodes = ShapeNodes(ids, k, s)
        /\ edges = es

\* a labelled node, every label with every shape, alone or after a node that
\* sets the diagram type; no edge
\* the characters U+00AB and U+00BB, each one element of a text; str.lower
\* and str.strip leave them as they are
LeftGuillemet == "laquo"
RightGuillemet == "raquo"
Guillemets(word) == <<LeftGuillemet>> \o word \o <<RightGuillemet>>

NodeLabels ==
  {<<>>, <<"S","t","a","r","t">>, <<" ","E","n","d"," ">>, <<"o","k","?">>, <<"l","o","o","p">>, <<"P","r","i","n","t"," ","R","e","s","u","l","t">>, <<"f","o","o">>,
   <<"e","n","t","i","t","y">>, <<"r","e","l","a","t","i","o","n">>, <<"a","t","t","r","i","b","u","t","e">>, <<"l","i","f","e","l","i","n","e">>, <<"m","e","s","s","a","g","e">>,
   <<"f","o","r","k">>, <<"j","o","i","n">>, <<"a","c","t","i","o","n">>, <<"s","w","i","m","l","a","n","e">>, <<"C","l","a","s","s"," ","A">>, <<"<","<","i","n","t","e","r","f","a","c","e",">",">">>,
   <<"g","e","t","(",")">>, <<"x",":"," ","i","n","t">>, <<"p","r","i","m","a","r","y"," ","k","e","y">>, <<"r","e","t","u","r","n">>, <<"c","l","a","s","s"," ","m","e","t","h","o","d">>,
   Guillemets(<<"I","n","t","e","r","f","a","c","e">>)}

NodeShapes ==
  {<<>>, <<"E","l","l","i","p","s","e">>, <<"d","i","a","m","o","n","d">>, <<"r","e","c","t","a","n","g","l","e">>, <<"p","a","r","a","l","l","e","l","o","g","r","a","m">>, <<"c","o","n","n","e","c","t","o","r">>,
   <<"h","e","x","a","g","o","n">>}

AnchorLabels == {<<"C","l","a","s","s"," ","A">>, <<"e","n","t","i","t","y">>, <<"l","i","f","e","l","i","n","e">>, <<"f","o","r","k">>}

LabelInputs ==
  \E n \in [id : {"n2"}, label : NodeLabels, shape : NodeShapes] :
    \E pre \in {<<>>} \cup {<<[id |-> "n1", label |-> a, shape |-> <<>>]>> : a \in AnchorLabels} :
      /\ nodes = pre \o <<n>>
      /\ edges = <<>>

\* candidates for the start node: two or three nodes, no edge
StartLabels == {<<>>, <<"R","e","s","t","a","r","t">>, <<"f","o","o">>}
StartKinds == {<<>>, <<"T","e","r","m","i","n","a","t","o","r">>, <<"d","i","a","m","o","n","d">>}

StartInputs ==
  \E ids \in NodeIdSeqs, k \in 2..3 :
    \E ks \in [1..k -> [label : StartLabels, shape : StartKinds]] :
      /\ nodes = [i \in 1..k |-> [id |-> ids[i], label |-> ks[i].label,
                                  shape |-> ks[i].shape]]
      /\ edges = <<>>

\* a decision node with labelled outgoing edges to a second node and to the
\* dangling id
EdgeLabels ==
  {<<>>, <<"Y","e","s"," ">>, <<"y">>, <<"T","R","U","E">>, <<"n","o">>, <<" ","N">>, <<"f","a","l","s","e">>, <<"m","a","y","b","e">>}

BranchNodes ==
  <<[id |-> "n1", label |-> <<"x"," ",">"," ","0">>, shape |-> <<"d","i","a","m","o","n","d">>],
    [id |-> "n2", label |-> <<"R","e","s","u","l","t">>, shape |-> <<>>]>>

BranchInputs ==
  \E m \in 0..MaxEdges :
    \E es \in [1..m -> [source : {"n1"}, target : {"n2", DanglingId},
                        label : EdgeLabels]] :
      /\ nodes = BranchNodes
      /\ edges = es

\* a chain n1 -> n2 -> ... -> nk of up to four nodes, each of one of six
\* kinds; the four-node Start / Input Value / Print Result / End diagram is
\* one of them
ChainIds == <<"n1", "n2", "n3", "n4">>

ChainKinds ==
  {[label |-> <<"S","t","a","r","t">>, shape |-> <<"e","l","l","i","p","s","e">>],
   [label |-> <<"I","n","p","u","t"," ","V","a","l","u","e">>, shape |-> <<"p","a","r","a","l","l","e","l","o","g","r","a","m">>],
   [label |-> <<"P","r","i","n","t"," ","R","e","s","u","l","t">>, shape |-> <<"p","a","r","a","l","l","e","l","o","g","r","a","m">>],
   [label |-> <<"E","n","d">>, shape |-> <<"e","l","l","i","p","s","e">>],
   [label |-> <<"o","k","?">>, shape |-> <<"d","i","a","m","o","n","d">>],
   [label |-> <<"E","n","d">>, shape |-> <<>>]}

ChainInputs ==
  \E k \in 1..Len(ChainIds) :
    \E ks \in [1..k -> ChainKinds] :
      /\ nodes = [i \in 1..k |-> [id |-> ChainIds[i], label |-> ks[i].label,
                                  shape |-> ks[i].shape]]
      /\ edges = [i \in 1..(k - 1) |-> [source |-> ChainIds[i],
                                        target |-> ChainIds[i + 1],
                                        label |-> <<>>]]

\* a start node n1 among four nodes, with two edges out of n1 and then one
\* out of n2, to the other nodes or to the dangling id: trees, diamonds and
\* self-loops on which depth-first and breadth-first order differ
TreeSources == <<"n1", "n1", "n2">>

TreeNodes ==
  [i \in 1..4 |-> [id |-> ChainIds[i], label |-> <<>>,
                   shape |-> IF i = 1 THEN <<"e","l","l","i","p","s","e">> ELSE <<>>]]

TreeInputs ==
  \E ts \in [1..3 -> {"n2", "n3", "n4", DanglingId}] :
    /\ nodes = TreeNodes
    /\ edges = [i \in 1..3 |-> [source |-> TreeSources[i], target |-> ts[i],
                                label |-> <<>>]]

\* a single round rectangle whose label holds braces, with and without the
\* word class
BraceLabels == {<<"U","s","e","r","A","c","c","o","u","n","t"," ","{"," ","i","d",":"," ","i","n","t",","," ","n","a","m","e",":"," ","s","t","r"," ","}">>, <<"c","l","a","s","s"," ","U","s","e","r","A","c","c","o","u","n","t"," ","{"," ","i","d",":"," ","i","n","t"," ","}">>}

BraceInputs ==
  \E l \in BraceLabels :
    /\ nodes = <<[id |-> "n1", label |-> l, shape |-> <<"r","o","u","n","d","r","e","c","t","a","n","g","l","e">>]>>
    /\ edges = <<>>

\* score vectors: a chain of up to MaxScoreNodes nodes, each adding to the
\* score of one or two types, or to none
MaxScoreNodes == 3

ScoreKinds ==
  {[label |-> <<>>, shape |-> <<>>],
   [label |-> <<>>, shape |-> <<"d","i","a","m","o","n","d">>],
   [label |-> <<>>, shape |-> <<"r","e","c","t","a","n","g","l","e">>],
   [label |-> <<"a",":",":","b">>, shape |-> <<>>],
   [label |-> <<"l","i","f","e","l","i","n","e">>, shape |-> <<>>],
   [label |-> <<"e","n","t","i","t","y">>, shape |-> <<>>],
   [label |-> <<"f","o","r","k">>, shape |-> <<>>],
   [label |-> <<"a","t","t","r","i","b","u","t","e">>, shape |-> <<>>]}

ScoreInputs ==
  \E k \in 1..MaxScoreNodes :
    \E ks \in [1..k -> ScoreKinds] :
      /\ nodes = [i \in 1..k |-> [id |-> ChainIds[i], label |-> ks[i].label,
                                  shape |-> ks[i].shape]]
      /\ edges = [i \in 1..(k - 1) |-> [source |-> ChainIds[i],
                                        target |-> ChainIds[i + 1],
                                        label |-> <<>>]]

\* a node under the role Input, with every state of logic_templates.json
TemplateLabels == {<<"P","r","i","n","t"," ","R","e","s","u","l","t">>, <<"p","r","i","n","t"," ","r","e","s","u","l","t","s">>, <<"S","h","o","w">>}

TemplateTables ==
  {<<>>,
   [r \in {<<"I","n","p","u","t">>, <<"O","u","t","p","u","t">>} |->
      IF r = <<"I","n","p","u","t">>
        THEN <<[keywords |-> <<<<"p","r","i","n","t">>>>, logic |-> "L1"],
               [keywords |-> <<<<"x">>, <<"P","r","i","n","t"," ","R","e","s","u","l","t">>>>, logic |-> "L2"]>>
        ELSE <<[keywords |-> <<<<"p","r","i","n","t"," ","r","e","s","u","l","t">>>>, logic |-> "L3"]>>],
   [r \in {<<"I","n","p","u","t">>} |->
      <<[keywords |-> <<<<"s","u","m">>, <<"r","e","s","u","l","t">>>>, logic |-> "L1"],
        [keywords |-> <<<<"p","r","i","n","t">>>>, logic |-> "L2"]>>],
   [r \in {<<"I","n","p","u","t">>} |-> <<[keywords |-> <<<<"R","E","S","U","L","T">>>>, logic |-> "L1"]>>],
   [r \in {<<"I","n","p","u","t">>, <<"O","u","t","p","u","t">>} |->
      IF r = <<"I","n","p","u","t">>
        THEN <<[keywords |-> <<<<"f","o","o">>>>, logic |-> "L1"]>>
        ELSE <<[keywords |-> <<<<"p","r","i","n","t">>>>, logic |-> "L3"]>>]}

TemplateFiles ==
  {NoFile, [state |-> "malformed", table |-> <<>>], [state |-> "unreadable", table |-> <<>>]}
    \cup [state : {"json"}, table : TemplateTables]

TemplateInputs ==
  \E l \in TemplateLabels, f \in TemplateFiles :
    /\ nodes = <<[id |-> "n1", label |-> l, shape |-> <<"p","a","r","a","l","l","e","l","o","g","r","a","m">>]>>
    /\ edges = <<>>
    /\ template_file = f

\* before the pipeline runs on its input
Idle ==
  /\ xml = NoXml
  /\ generic = Unbound
  /\ error = ""
  /\ pc = "classify_type"
  /\ scores = ZeroScores
  /\ diagram_type = ""
  /\ queue = <<>>
  /\ visited = {}
  /\ order = <<>>
  /\ visit_count = <<>>
  /\ pushes = <<>>
  /\ legacy_roles = <<>>
  /\ roles = <<>>
  /\ doc = NoDoc
  /\ prev = NoPrev
  /\ WorkerStarted("fresh")

Init ==
  /\ \/ /\ \/ ShapeInputs \/ LabelInputs \/ StartInputs \/ BranchInputs
           \/ ChainInputs \/ BraceInputs \/ ScoreInputs \/ TreeInputs
        /\ template_file = NoFile
     \/ TemplateInputs
  /\ Idle

\* the inputs that differ in their graph
GraphInit ==
  /\ ShapeInputs \/ LabelInputs \/ StartInputs \/ BranchInputs \/ ChainInputs
  /\ template_file = NoFile
  /\ Idle

Next ==
  \/ ClassifyType
  \/ TraverseBegin
  \/ BfsStep
  \/ BfsDrained
  \/ AppendUnreachable
  \/ ClassifyRoles
  \/ Interpret
  \/ Rerun

Spec == Init /\ [][Next]_vars

\* one run of the pipeline
RunOnce ==
  \/ ClassifyType
  \/ TraverseBegin
  \/ BfsStep
  \/ BfsDrained
  \/ AppendUnreachable
  \/ ClassifyRoles
  \/ Interpret

\* a single thread runs the while loop: an iteration that can be taken is
\* taken, and the loop is left once the queue is empty
FairSpec == GraphInit /\ [][RunOnce]_vars /\ WF_vars(BfsStep) /\ WF_vars(BfsDrained)

\* documents: unparseable, without a graph element, or with up to two node
\* elements and up to one edge element; the first node element has a label
ElemIds == <<"n1", "n2">>
ElemLabels == <<<<" ","B","e","g","i","n"," ">>, <<>>>>
ShapeTypes == {<<>>, <<"R","e","c","t","a","n","g","l","e">>}
FlowchartShapeTypes == {<<>>, <<"D","e","c","i","s","i","o","n">>}

Configurations ==
  {<<>>, <<"f","l","o","w",".","S","t","a","r","t","1">>, <<"f","l","o","w",".","T","e","r","m","i","n","a","t","o","r">>, <<"f","l","o","w",".","d","e","c","i","s","i","o","n">>, <<"f","l","o","w",".","d","a","t","a","B","a","s","e">>,
   <<"f","l","o","w",".","I","n","p","u","t">>, <<"f","l","o","w",".","p","r","o","c","e","s","s">>, <<"c","o","m",".","f","l","o","w",".","C","l","o","u","d">>}

GenericKinds ==
  {[has_generic |-> FALSE, configuration |-> <<>>]}
    \cup [has_generic : {TRUE}, configuration : Configurations]

EdgeElems ==
  {<<>>,
   <<[has_source |-> TRUE, has_target |-> TRUE, source |-> "n1", target |-> "n2",
      label |-> <<" ","Y","e","s"," ">>]>>,
   <<[has_source |-> FALSE, has_target |-> TRUE, source |-> "", target |-> "n2",
      label |-> <<>>]>>,
   <<[has_source |-> TRUE, has_target |-> FALSE, source |-> "n1", target |-> "",
      label |-> <<>>]>>}

XmlInputs ==
  \/ xml \in {[kind |-> k, node_elems |-> <<>>, edge_elems |-> <<>>] :
                k \in {"unparseable", "no_graph"}}
  \/ \E k \in 0..Len(ElemIds), es \in EdgeElems :
       \E noid \in 0..k :
         \E st \in [1..k -> ShapeTypes], ft \in [1..k -> FlowchartShapeTypes],
            gk \in [1..k -> GenericKinds] :
           xml = [kind |-> "graph",
                  node_elems |->
                    [i \in 1..k |->
                      [has_id |-> i # noid, id |-> IF i # noid THEN ElemIds[i] ELSE "",
                       label |-> ElemLabels[i], shape_type |-> st[i],
                       flowchart_shape_type |-> ft[i],
                       has_generic |-> gk[i].has_generic,
                       configuration |-> gk[i].configuration]],
                  edge_elems |-> es]

\* before parse_graphml is called
ParseInit ==
  /\ XmlInputs
  /\ generic = Unbound
  /\ error = ""
  /\ nodes = <<>>
  /\ edges = <<>>
  /\ pc = "parse_open"
  /\ template_file = NoFile
  /\ scores = ZeroScores
  /\ diagram_type = ""
  /\ queue = <<>>
  /\ visited = {}
  /\ order = <<>>
  /\ visit_count = <<>>
  /\ pushes = <<>>
  /\ legacy_roles = <<>>
  /\ roles = <<>>
  /\ doc = NoDoc
  /\ prev = NoPrev
  /\ WorkerStarted("fresh")

ParseNext ==
  \/ ParseOpen
  \/ ParseNode
  \/ ParseEdge
  \/ ParseReturn

\* parse_graphml on its own
ParseSpec == ParseInit /\ [][ParseNext]_vars

(***************************************************************************)
(* Properties.                                                             *)
(***************************************************************************)
\* traverse_graph has returned
Traversed == pc \in {"roles", "interpret", "done"}

OrderSet == {order[i] : i \in 1..Len(order)}

\* position of the first occurrence of an id in the order
Pos(id) == CHOOSE i \in 1..Len(order) : order[i] = id /\ \A j \in 1..(i - 1) : order[j] # id

InDegree(id) == Cardinality({i \in 1..Len(edges) : edges[i].target = id})

Succ(S) == {edges[i].target : i \in {j \in 1..Len(edges) : edges[j].source \in S}}

\* ids at distance at most k from the start node
RECURSIVE Within(_)
Within(k) ==
  IF k = 0 THEN {find_start_node(nodes).id}
  ELSE Within(k - 1) \cup Succ(Within(k - 1))

Reach == Within(Len(edges))

Dist(id) == CHOOSE k \in 0..Len(edges) : id \in Within(k) /\ \A j \in 0..(k - 1) : id \notin Within(j)

\* the first id of the order with an edge to id, and the first such edge
ParentPos(id) ==
  CHOOSE p \in 1..Len(order) :
    /\ \E i \in 1..Len(edges) : edges[i].source = order[p] /\ edges[i].target = id
    /\ \A q \in 1..(p - 1) :
         ~\E i \in 1..Len(edges) : edges[i].source = order[q] /\ edges[i].target = id

ParentEdge(id) ==
  CHOOSE i \in 1..Len(edges) :
    /\ edges[i].source = order[ParentPos(id)] /\ edges[i].target = id
    /\ \A j \in 1..(i - 1) :
         ~(edges[j].source = order[ParentPos(id)] /\ edges[j].target = id)

\* C1: the order traverse_graph returns is a permutation of the node ids: as
\* long as the node list, no id twice, every node id in it and no other id.
C1_OrderIsPermutation ==
  Traversed =>
    /\ Len(order) = Len(nodes)
    /\ \A i, j \in 1..Len(order) : i # j => order[i] # order[j]
    /\ OrderSet = NodeIds(nodes)

\* C2: the breadth-first loop of traverse_graph ends on every graph: once
\* entered, the queue drains and the loop is left.
C2_BfsTerminates == (pc = "bfs") ~> (pc = "unreachable")

\* the loop was left on a graph with a cycle that exhausted a node's cap
C2_Witness == pc = "unreachable" /\ \E id \in DOMAIN pushes : pushes[id] = 3

\* C3: in every state of the breadth-first loop each id has been appended to
\* the queue by the neighbour loop at most 3 times, whatever its in-degree.
C3_PushCap ==
  pc \in {"bfs", "unreachable"} => \A id \in DOMAIN pushes : pushes[id] <= 3

\* an id with several incoming edges was appended exactly 3 times
C3_Witness ==
  /\ pc = "unreachable"
  /\ \E id \in DOMAIN pushes : pushes[id] = 3 /\ InDegree(id) >= 2

\* C4: in the returned order every node reachable from the start node comes
\* before every node that is not, and the reachable ids are in breadth-first
\* order: by distance from the start node, then by the position of the first
\* predecessor in the order, then by edge order; no reachable node is left out.
C4_BfsOrder ==
  (Traversed /\ nodes # <<>>) =>
    /\ Reach \subseteq OrderSet
    /\ order # <<>> => order[1] = find_start_node(nodes).id
    /\ \A r \in Reach \cap OrderSet : \A u \in (NodeIds(nodes) \ Reach) \cap OrderSet :
         Pos(r) < Pos(u)
    /\ \A a, b \in (Reach \cap OrderSet) \ {find_start_node(nodes).id} :
         Pos(a) < Pos(b) =>
           /\ Dist(a) <= Dist(b)
           /\ ParentPos(a) <= ParentPos(b)
           /\ ParentPos(a) = ParentPos(b) => ParentEdge(a) < ParentEdge(b)

\* C5: the order starts with the first node, in input order, whose lowercased
\* label contains "start" or whose lowercased shape is start1, terminator or
\* ellipse, or with the first node when there is none; an empty node list
\* gives an empty order and an empty map.
C5_StartFirst ==
  Traversed =>
    IF nodes = <<>> THEN order = <<>> /\ legacy_roles = <<>>
    ELSE /\ order # <<>>
         /\ \/ \E i \in 1..Len(nodes) :
                 /\ IsStartNode(nodes[i])
                 /\ \A j \in 1..(i - 1) : ~IsStartNode(nodes[j])
                 /\ order[1] = nodes[i].id
            \/ /\ \A i \in 1..Len(nodes) : ~IsStartNode(nodes[i])
               /\ order[1] = nodes[1].id

\* C6: a second run of the pipeline on the same nodes and edges gives the same
\* diagram type, the same traversal order, the same roles and the same
\* document as the first.
C6_Deterministic ==
  (pc = "done" /\ prev.ran) =>
    /\ prev.diagram_type = diagram_type
    /\ prev.order = order
    /\ prev.roles = roles
    /\ prev.doc = doc

\* the roles each diagram type may assign
Vocabulary(dtype) ==
  IF dtype = "Flowchart"
    THEN {<<"S","t","a","r","t">>, <<"E","n","d">>, <<"D","e","c","i","s","i","o","n">>, <<"L","o","o","p">>, <<"I","n","p","u","t">>, <<"O","u","t","p","u","t">>,
          <<"P","r","o","c","e","s","s">>, <<"J","u","m","p">>}
  ELSE IF dtype = "UML Class Diagram"
    THEN {<<"I","n","t","e","r","f","a","c","e">>, <<"C","l","a","s","s">>, <<"M","e","t","h","o","d">>, <<"A","t","t","r","i","b","u","t","e">>, <<"U","n","k","n","o","w","n"," ","U","M","L"," ","P","a","r","t">>}
  ELSE IF dtype = "UML Sequence Diagram"
    THEN {<<"L","i","f","e","l","i","n","e">>, <<"M","e","s","s","a","g","e">>, <<"A","c","t","o","r">>}
  ELSE IF dtype = "ER Diagram"
    THEN {<<"E","n","t","i","t","y">>, <<"A","t","t","r","i","b","u","t","e">>, <<"R","e","l","a","t","i","o","n","s","h","i","p">>, <<"U","n","k","n","o","w","n">>}
  ELSE IF dtype = "UML Activity Diagram"
    THEN {<<"F","o","r","k">>, <<"J","o","i","n">>, <<"A","c","t","i","o","n">>, <<"S","w","i","m","l","a","n","e">>, <<"U","n","k","n","o","w","n">>}
  ELSE {<<"U","n","k","n","o","w","n">>}

\* C7: the map classify_node_roles returns has the node ids as its keys and
\* every value in the vocabulary of the diagram type.
C7_RoleVocabulary ==
  pc \in {"interpret", "done"} =>
    /\ DOMAIN roles = NodeIds(nodes)
    /\ \A id \in DOMAIN roles : roles[id] \in Vocabulary(diagram_type)

\* a Flowchart node that no rule of the cascade matches got its role
C7_Witness ==
  /\ pc = "interpret"
  /\ diagram_type = "Flowchart"
  /\ \E i \in 1..Len(nodes) :
       /\ nodes[i].label = <<>> /\ nodes[i].shape = <<>>
       /\ roles[nodes[i].id] = <<"P","r","o","c","e","s","s">>

Flow == doc.execution_flow

\* C8: run on the order of traverse_graph, interpret_flowchart emits exactly
\* one step per node id.
C8_OneStepPerNode ==
  pc = "done" =>
    /\ Len(Flow) = Len(nodes)
    /\ {Flow[i].node_id : i \in 1..Len(Flow)} = NodeIds(nodes)
    /\ \A i, j \in 1..Len(Flow) : i # j => Flow[i].node_id # Flow[j].node_id

\* the edges leaving a node, in edge order
OutEdges(id) == SelectSeq(edges, LAMBDA e : e.source = id)

\* those of them whose target is a node of the list
KnownOutEdges(id) ==
  SelectSeq(edges, LAMBDA e : e.source = id /\ e.target \in NodeIds(nodes))

DecisionSteps == {i \in 1..Len(Flow) : Flow[i].role = <<"D","e","c","i","s","i","o","n">>}

\* C9: a Decision step has one branch per edge leaving its node, in edge order.
C9_BranchPerEdge ==
  pc = "done" =>
    \A i \in DecisionSteps :
      /\ "branches" \in DOMAIN Flow[i]
      /\ Len(Flow[i].branches) = Len(OutEdges(Flow[i].node_id))
      /\ \A k \in 1..Len(Flow[i].branches) :
           Flow[i].branches[k].target_node_id = OutEdges(Flow[i].node_id)[k].target

\* C9, amended: a Decision step has one branch per edge leaving its node whose
\* target is a node of the node list, in the order of those edges.
C9_BranchPerKnownEdge ==
  pc = "done" =>
    \A i \in DecisionSteps :
      /\ "branches" \in DOMAIN Flow[i]
      /\ Len(Flow[i].branches) = Len(KnownOutEdges(Flow[i].node_id))
      /\ \A k \in 1..Len(Flow[i].branches) :
           Flow[i].branches[k].target_node_id = KnownOutEdges(Flow[i].node_id)[k].target

\* a Decision step with two edges to the same node and both branches kept
C9_Witness ==
  /\ pc = "done"
  /\ \E i \in DecisionSteps :
       /\ Len(Flow[i].branches) = 2
       /\ Flow[i].branches[1].target_node_id = Flow[i].branches[2].target_node_id

\* what the claim expects of an edge label: <<condition_label, condition>>
ExpectedBranch(raw) ==
  CASE raw = <<"Y","e","s"," ">>  -> <<<<"y","e","s">>, <<"y","e","s">>>>
    [] raw = <<"y">>     -> <<<<"y">>, <<"y","e","s">>>>
    [] raw = <<"T","R","U","E">>  -> <<<<"t","r","u","e">>, <<"y","e","s">>>>
    [] raw = <<"n","o">>    -> <<<<"n","o">>, <<"n","o">>>>
    [] raw = <<" ","N">>    -> <<<<"n">>, <<"n","o">>>>
    [] raw = <<"f","a","l","s","e">> -> <<<<"f","a","l","s","e">>, <<"n","o">>>>
    [] raw = <<"m","a","y","b","e">> -> <<<<"m","a","y","b","e">>, <<>>>>
    [] raw = <<>>      -> <<<<>>, <<>>>>

\* C10: the condition of a branch is "yes" for the labels yes, true and y,
\* "no" for no, false and n, compared trimmed and lowercased, and empty for
\* every other label; condition_label is the trimmed lowercased label.
C10_Condition ==
  pc = "done" =>
    \A i \in DecisionSteps :
      \A k \in 1..Len(Flow[i].branches) :
        LET raw == KnownOutEdges(Flow[i].node_id)[k].label
        IN  /\ Flow[i].branches[k].condition_label = ExpectedBranch(raw)[1]
            /\ Flow[i].branches[k].condition = ExpectedBranch(raw)[2]

\* a branch of an edge labelled " N" has the condition "no"
C10_Witness ==
  /\ pc = "done"
  /\ \E i \in DecisionSteps :
       \E k \in 1..Len(Flow[i].branches) :
         /\ KnownOutEdges(Flow[i].node_id)[k].label = <<" ","N">>
         /\ Flow[i].branches[k].condition = <<"n","o">>

\* C11: a step has a next_id field exactly when its node has exactly one
\* outgoing edge, duplicate edges counted separately, and its role, compared
\* case-insensitively, is neither decision nor end; the field then holds the
\* target id of that edge.
C11_NextId ==
  pc = "done" =>
    \A i \in 1..Len(Flow) :
      LET out == OutEdges(Flow[i].node_id)
      IN  /\ ("next_id" \in DOMAIN Flow[i]) <=>
                (Len(out) = 1 /\ Lower(Flow[i].role) \notin {<<"d","e","c","i","s","i","o","n">>, <<"e","n","d">>})
          /\ "next_id" \in DOMAIN Flow[i] => Flow[i].next_id = out[1].target

\* one flow with a step that has a next_id, a Decision step with a single
\* outgoing edge and no next_id, and a step with two outgoing edges and none
C11_Witness ==
  /\ pc = "done"
  /\ \E i \in 1..Len(Flow) : "next_id" \in DOMAIN Flow[i]
  /\ \E i \in 1..Len(Flow) :
       /\ Flow[i].role \in {<<"D","e","c","i","s","i","o","n">>, <<"E","n","d">>}
       /\ Len(OutEdges(Flow[i].node_id)) = 1
       /\ "next_id" \notin DOMAIN Flow[i]

\* the four-node diagram of the scenario
ScenarioNodes ==
  <<[id |-> "n1", label |-> <<"S","t","a","r","t">>, shape |-> <<"e","l","l","i","p","s","e">>],
    [id |-> "n2", label |-> <<"I","n","p","u","t"," ","V","a","l","u","e">>, shape |-> <<"p","a","r","a","l","l","e","l","o","g","r","a","m">>],
    [id |-> "n3", label |-> <<"P","r","i","n","t"," ","R","e","s","u","l","t">>, shape |-> <<"p","a","r","a","l","l","e","l","o","g","r","a","m">>],
    [id |-> "n4", label |-> <<"E","n","d">>, shape |-> <<"e","l","l","i","p","s","e">>]>>

\* C12: for the four nodes Start (ellipse), Input Value (parallelogram),
\* Print Result (parallelogram) and End (ellipse) under Flowchart,
\* classify_node_roles returns n1: Start, n2: Input, n3: Output, n4: End.
C12_ScenarioRoles ==
  (pc \in {"interpret", "done"} /\ nodes = ScenarioNodes /\ diagram_type = "Flowchart") =>
    /\ roles["n1"] = <<"S","t","a","r","t">>
    /\ roles["n2"] = <<"I","n","p","u","t">>
    /\ roles["n3"] = <<"O","u","t","p","u","t">>
    /\ roles["n4"] = <<"E","n","d">>

\* the input is a chain: distinct ids, edge i leads from node i to node i + 1,
\* and find_start_node picks the first node
IsChain ==
  /\ Len(nodes) >= 1
  /\ Len(edges) = Len(nodes) - 1
  /\ \A i, j \in 1..Len(nodes) : i # j => nodes[i].id # nodes[j].id
  /\ \A i \in 1..Len(edges) :
       edges[i].source = nodes[i].id /\ edges[i].target = nodes[i + 1].id
  /\ find_start_node(nodes).id = nodes[1].id

\* C13: for a chain whose start node is its first node, the scenario is a
\* Flowchart, execution_flow has one step per node in chain order, every step
\* but the last has the next_id of the following step, and the last has none.
C13_Chain ==
  (pc = "done" /\ IsChain) =>
    /\ nodes = ScenarioNodes => diagram_type = "Flowchart"
    /\ Len(Flow) = Len(nodes)
    /\ \A i \in 1..Len(Flow) : Flow[i].node_id = nodes[i].id
    /\ \A i \in 1..(Len(Flow) - 1) :
         "next_id" \in DOMAIN Flow[i] /\ Flow[i].next_id = Flow[i + 1].node_id
    /\ "next_id" \notin DOMAIN Flow[Len(Flow)]

\* C13, amended: as above, but a step before the last has the next_id of the
\* following step when its role is neither Decision nor End, and no next_id
\* when it is.
C13_ChainButDecisionEnd ==
  (pc = "done" /\ IsChain) =>
    /\ nodes = ScenarioNodes => diagram_type = "Flowchart"
    /\ Len(Flow) = Len(nodes)
    /\ \A i \in 1..Len(Flow) : Flow[i].node_id = nodes[i].id
    /\ \A i \in 1..(Len(Flow) - 1) :
         IF roles[nodes[i].id] \in {<<"D","e","c","i","s","i","o","n">>, <<"E","n","d">>}
           THEN "next_id" \notin DOMAIN Flow[i]
           ELSE "next_id" \in DOMAIN Flow[i] /\ Flow[i].next_id = Flow[i + 1].node_id
    /\ "next_id" \notin DOMAIN Flow[Len(Flow)]

\* the scenario has run: four steps n1, n2, n3, n4, the first three chained
\* by next_id
C13_Witness ==
  /\ pc = "done"
  /\ nodes = ScenarioNodes
  /\ IsChain
  /\ [i \in 1..Len(Flow) |-> Flow[i].node_id] = <<"n1", "n2", "n3", "n4">>
  /\ Flow[1].next_id = "n2" /\ Flow[2].next_id = "n3" /\ Flow[3].next_id = "n4"

\* C14: for the single round rectangle labelled "UserAccount { id: int,
\* name: str }", classify_diagram_type returns UML Class Diagram and
\* classify_node_roles gives the node the role Class.
C14_BraceLabelIsClass ==
  (/\ pc \in {"interpret", "done"}
   /\ nodes = <<[id |-> "n1", label |-> <<"U","s","e","r","A","c","c","o","u","n","t"," ","{"," ","i","d",":"," ","i","n","t",","," ","n","a","m","e",":"," ","s","t","r"," ","}">>,
                 shape |-> <<"r","o","u","n","d","r","e","c","t","a","n","g","l","e">>]>>) =>
    /\ diagram_type = "UML Class Diagram"
    /\ roles["n1"] = <<"C","l","a","s","s">>

\* classify_diagram_type has just returned
Typed == pc = "traverse"

DiagramTypes == {TypeOrder[i] : i \in 1..Len(TypeOrder)} \cup {"Unknown"}

\* the five scores after the loop, their maximum, the types that reach it,
\* and the highest score once one top entry is set aside
NodeScores == scores
TopScore == CHOOSE v \in {NodeScores[t] : t \in DOMAIN NodeScores} :
              \A t \in DOMAIN NodeScores : NodeScores[t] <= v
TopTypes == {t \in DOMAIN NodeScores : NodeScores[t] = TopScore}
RunnerUp ==
  IF Cardinality(TopTypes) > 1 THEN TopScore
  ELSE CHOOSE v \in {NodeScores[t] : t \in DOMAIN NodeScores \ TopTypes} :
         \A t \in DOMAIN NodeScores \ TopTypes : NodeScores[t] <= v

\* C15: classify_diagram_type returns Unknown exactly when all five scores are
\* 0, so for an empty node list and for nodes whose labels and shapes are all
\* empty; it never returns a value outside the six diagram types.
C15_UnknownIffAllZero ==
  Typed =>
    /\ diagram_type \in DiagramTypes
    /\ diagram_type = "Unknown" <=> (\A t \in DOMAIN NodeScores : NodeScores[t] = 0)
    /\ (\A i \in 1..Len(nodes) : nodes[i].label = <<>> /\ nodes[i].shape = <<>>)
         => diagram_type = "Unknown"

\* nodes without label and shape were classified Unknown
C15_Witness ==
  /\ Typed
  /\ Len(nodes) >= 2
  /\ \A i \in 1..Len(nodes) : nodes[i].label = <<>> /\ nodes[i].shape = <<>>
  /\ diagram_type = "Unknown"

\* the UML-Class/Flowchart disambiguation applies
Disambiguates ==
  /\ "UML Class Diagram" \in TopTypes
  /\ NodeScores["Flowchart"] > 2
  /\ TopScore - NodeScores["Flowchart"] <= 1

\* C16: for scores with a non-zero maximum to which the disambiguation does
\* not apply, the result is a highest-scoring type when the top score leads
\* the second by 2 or more or is 4 or more, and Flowchart otherwise.
C16_GapOrStrength ==
  (Typed /\ TopScore # 0 /\ ~Disambiguates) =>
    IF TopScore - RunnerUp >= 2 \/ TopScore >= 4
      THEN diagram_type \in TopTypes
      ELSE diagram_type = "Flowchart"

\* a top score of 4 or more that leads by less than 2 decided the type
C16_Witness ==
  /\ Typed /\ ~Disambiguates
  /\ TopScore >= 4 /\ TopScore - RunnerUp < 2
  /\ diagram_type \in TopTypes \ {"Flowchart"}

\* C17: when UML Class Diagram has the top score, Flowchart's score is above 2
\* and the UML-Class score leads it by at most 1, the result is Flowchart,
\* also when the UML-Class score is 4 or more.
C17_Disambiguation ==
  (Typed /\ Disambiguates) => diagram_type = "Flowchart"

\* UML Class Diagram led with 4 or more and Flowchart was returned
C17_Witness ==
  /\ Typed /\ Disambiguates
  /\ NodeScores["UML Class Diagram"] >= 4
  /\ NodeScores["UML Class Diagram"] > NodeScores["Flowchart"]
  /\ diagram_type = "Flowchart"

\* parse_graphml has returned
Parsed == pc = "parse_returned"

\* every node element has an id, every edge element a source and a target
AllAttributes ==
  /\ \A i \in 1..Len(xml.node_elems) : xml.node_elems[i].has_id
  /\ \A i \in 1..Len(xml.edge_elems) :
       xml.edge_elems[i].has_source /\ xml.edge_elems[i].has_target

WellFormed == xml.kind = "graph" /\ AllAttributes

\* C18: no exception leaves parse_graphml; for unparseable markup, for a
\* document without a graph element, and whenever an exception is raised
\* while the nodes or edges are read (a node without id, an edge without
\* source or target), it returns two empty sequences.
C18_NeverPropagates ==
  /\ pc # "parse_propagated"
  /\ (Parsed /\ (~WellFormed \/ error # "")) => (nodes = <<>> /\ edges = <<>>)

\* the second node element has no id: the node read before it is dropped
C18_Witness ==
  /\ Parsed
  /\ error = "KeyError"
  /\ Len(xml.node_elems) = 2
  /\ xml.node_elems[1].has_id /\ ~xml.node_elems[2].has_id
  /\ generic.bound
  /\ nodes = <<>> /\ edges = <<>>

\* C19: for every node element of a well-formed document parse_graphml yields
\* a node whose metadata holds raw_shape, the shape it resolved, and
\* raw_config, the configuration of that node's own GenericNode, or empty
\* when the node has none, whichever shape branch fired.
C19_Metadata ==
  (Parsed /\ WellFormed) =>
    /\ Len(nodes) = Len(xml.node_elems)
    /\ \A i \in 1..Len(nodes) :
         /\ nodes[i].metadata.raw_shape = nodes[i].shape
         /\ nodes[i].metadata.raw_config =
              IF xml.node_elems[i].has_generic
                THEN xml.node_elems[i].configuration ELSE <<>>

\* what the claim expects of a configuration of the inputs
ExpectedConfigShape(configuration) ==
  CASE configuration \in {<<"f","l","o","w",".","S","t","a","r","t","1">>, <<"f","l","o","w",".","T","e","r","m","i","n","a","t","o","r">>} -> <<"e","l","l","i","p","s","e">>
    [] configuration = <<"f","l","o","w",".","d","e","c","i","s","i","o","n">> -> <<"d","i","a","m","o","n","d">>
    [] configuration \in {<<"f","l","o","w",".","d","a","t","a","B","a","s","e">>, <<"f","l","o","w",".","I","n","p","u","t">>} -> <<"p","a","r","a","l","l","e","l","o","g","r","a","m">>
    [] configuration = <<"f","l","o","w",".","p","r","o","c","e","s","s">> -> <<"r","e","c","t","a","n","g","l","e">>
    [] configuration = <<"c","o","m",".","f","l","o","w",".","C","l","o","u","d">> -> <<"c","l","o","u","d">>
    [] configuration = <<>> -> <<>>

ExpectedShape(elem) ==
  IF elem.shape_type # <<>> THEN Lower(elem.shape_type)
  ELSE IF elem.flowchart_shape_type # <<>> THEN Lower(elem.flowchart_shape_type)
  ELSE ExpectedConfigShape(elem.configuration)

\* C20: a node's shape is the lowercased explicit shape type when that is
\* not empty, otherwise the flowchart shape type, otherwise the shape derived
\* from the GenericNode configuration; every node element of the graph is
\* returned as a node.
C20_ShapePriority ==
  (Parsed /\ WellFormed) =>
    /\ Len(nodes) = Len(xml.node_elems)
    /\ \A i \in 1..Len(nodes) : nodes[i].shape = ExpectedShape(xml.node_elems[i])

\* C21: when logic_templates.json is absent, cannot be read or holds no
\* JSON, interpret_flowchart does not fail: it returns a complete document
\* in which every step has no logic_template.
C21_TemplatesDegrade ==
  template_file.state \in {"absent", "malformed", "unreadable"} =>
    /\ pc # "interpret_raised"
    /\ pc = "done" => (doc.made /\ \A i \in 1..Len(Flow) : Flow[i].logic_template = NoLogic)

\* the entries the table lists under a role
RoleEntries(role) ==
  IF role \in DOMAIN template_file.table THEN template_file.table[role] ELSE <<>>

\* the first entry of a role with a keyword equal, case-insensitively, to
\* the label
ExactEntries(label, role) ==
  {i \in 1..Len(RoleEntries(role)) :
     \E k \in 1..Len(RoleEntries(role)[i].keywords) :
       Lower(RoleEntries(role)[i].keywords[k]) = Lower(label)}

\* the entries with a keyword, as written, inside the lowercased label
SubstringEntries(label, role) ==
  {i \in 1..Len(RoleEntries(role)) :
     \E k \in 1..Len(RoleEntries(role)[i].keywords) :
       Contains(Lower(label), RoleEntries(role)[i].keywords[k])}

\* the entries with a keyword whose lowercased form is inside the lowercased
\* label
LoweredSubstringEntries(label, role) ==
  {i \in 1..Len(RoleEntries(role)) :
     \E k \in 1..Len(RoleEntries(role)[i].keywords) :
       Contains(Lower(label), Lower(RoleEntries(role)[i].keywords[k]))}

Least(S) == CHOOSE i \in S : \A j \in S : i <= j

\* the logic of the first exact entry, else of the first of the entries
\* given, else none
ExpectedLogic(label, role, others) ==
  IF ExactEntries(label, role) # {}
    THEN [some |-> TRUE, logic |-> RoleEntries(role)[Least(ExactEntries(label, role))].logic]
  ELSE IF others # {}
    THEN [some |-> TRUE, logic |-> RoleEntries(role)[Least(others)].logic]
  ELSE NoLogic

\* C22: match_template looks only at the entries of the role and returns the
\* logic of the first entry with a keyword equal, case-insensitively, to the
\* whole label, also when an earlier entry has a keyword inside the label;
\* otherwise the logic of the first entry with a keyword that is a substring
\* of the lowercased label; otherwise none.
C22_MatchTemplate ==
  (pc = "done" /\ template_file.state = "json") =>
    \A i \in 1..Len(Flow) :
      Flow[i].logic_template =
        ExpectedLogic(Flow[i].label, Flow[i].role,
                      SubstringEntries(Flow[i].label, Flow[i].role))

\* C22, amended: as above, with the keyword lowercased before the substring
\* test.
C22_MatchTemplateLowered ==
  (pc = "done" /\ template_file.state = "json") =>
    \A i \in 1..Len(Flow) :
      Flow[i].logic_template =
        ExpectedLogic(Flow[i].label, Flow[i].role,
                      LoweredSubstringEntries(Flow[i].label, Flow[i].role))

\* the second entry matched the whole label although the first entry has a
\* keyword inside it
C22_Witness ==
  /\ pc = "done"
  /\ template_file.state = "json"
  /\ \E i \in 1..Len(Flow) :
       /\ ExactEntries(Flow[i].label, Flow[i].role) = {2}
       /\ 1 \in SubstringEntries(Flow[i].label, Flow[i].role)
       /\ Flow[i].logic_template = [some |-> TRUE, logic |-> "L2"]

\* a step of one of the four calls leaves the inputs of the call alone
InputsKept ==
  pc \in {"classify_type", "traverse", "bfs", "unreachable", "roles", "interpret"} =>
    /\ nodes' = nodes
    /\ edges' = edges
    /\ pc # "classify_type" => diagram_type' = diagram_type
    /\ pc = "interpret" => (roles' = roles /\ order' = order)

\* C23: classify_diagram_type, traverse_graph, classify_node_roles and
\* interpret_flowchart leave their inputs as they were: the node list and the
\* edge list through all four calls, the diagram type once it is returned,
\* and the role map and the traversal order through interpret_flowchart.
C23_InputsUnchanged == [][InputsKept]_vars

\* all four calls have returned on a graph with nodes, edges and roles
C23_Witness ==
  /\ pc = "done"
  /\ doc.made
  /\ Len(nodes) = 3 /\ Len(edges) = 2
  /\ Len(order) >= 3
  /\ DOMAIN roles = NodeIds(nodes)

\* the roles of the rules of the Flowchart cascade, in the order they are
\* tried
RuleRoles ==
  <<<<"S","t","a","r","t">>, <<"E","n","d">>, <<"D","e","c","i","s","i","o","n">>, <<"L","o","o","p">>, <<"I","n","p","u","t">>, <<"O","u","t","p","u","t">>, <<"P","r","o","c","e","s","s">>,
    <<"J","u","m","p">>>>

\* whether rule k matches a node of the lowercased, stripped label l and
\* shape s
RuleHit(k, l, s) ==
  CASE k = 1 -> s \in {<<"e","l","l","i","p","s","e">>, <<"t","e","r","m","i","n","a","t","o","r">>, <<"s","t","a","r","t","1">>} \/ Contains(l, <<"s","t","a","r","t">>)
    [] k = 2 -> Contains(l, <<"e","n","d">>) \/ Contains(l, <<"s","t","o","p">>)
    [] k = 3 -> \/ s = <<"d","i","a","m","o","n","d">>
                \/ \E w \in {<<"?">>, <<"i","f">>, <<"c","h","e","c","k">>, <<"c","o","m","p","a","r","e">>, <<"d","o">>, <<"c","a","n">>,
                             <<"s","h","o","u","l","d">>, <<"e","l","s","e">>} : Contains(l, w)
    [] k = 4 -> \E w \in {<<"r","e","p","e","a","t">>, <<"l","o","o","p">>, <<"a","g","a","i","n">>, <<"w","h","i","l","e">>, <<"f","o","r">>} :
                  Contains(l, w)
    [] k = 5 -> \/ s \in {<<"p","a","r","a","l","l","e","l","o","g","r","a","m">>, <<"i","n","p","u","t">>, <<"d","o","c","u","m","e","n","t">>}
                \/ \E w \in {<<"i","n","p","u","t">>, <<"s","c","a","n">>, <<"r","e","a","d">>, <<"e","n","t","e","r">>} : Contains(l, w)
    [] k = 6 -> \/ s \in {<<"o","u","t","p","u","t">>, <<"d","i","s","p","l","a","y">>}
                \/ \E w \in {<<"p","r","i","n","t">>, <<"d","i","s","p","l","a","y">>, <<"o","u","t","p","u","t">>, <<"s","h","o","w">>} :
                     Contains(l, w)
    [] k = 7 -> s \in {<<"r","e","c","t","a","n","g","l","e">>, <<"r","o","u","n","d","r","e","c","t","a","n","g","l","e">>, <<"b","o","x">>}
    [] k = 8 -> s \in {<<"o","f","f","p","a","g","e","c","o","n","n","e","c","t","o","r">>, <<"j","u","m","p">>, <<"c","o","n","n","e","c","t","o","r">>}

\* the rules of the cascade that match the node
MatchingRules(n) ==
  UNION {{k \in 1..Len(RuleRoles) : RuleHit(k, l, s)} :
           l \in {Lower(Strip(n.label))}, s \in {Lower(Strip(n.shape))}}

\* the role the claim gives a Flowchart node
CascadeRole(hits) == IF hits = {} THEN <<"P","r","o","c","e","s","s">> ELSE RuleRoles[Least(hits)]

\* C24: under Flowchart the role stored for a node is the role of the first
\* rule, in the order Start, End, Decision, Loop, Input, Output, Process,
\* Jump, that matches the node's own label and shape, and Process when no
\* rule matches; it is never "Unknown".
C24_FlowchartCascade ==
  (pc = "interpret" /\ diagram_type = "Flowchart") =>
    \A i \in 1..Len(nodes) :
      \A hits \in {MatchingRules(nodes[i])} :
        /\ nodes[i].id \in DOMAIN roles
        /\ roles[nodes[i].id] # <<"U","n","k","n","o","w","n">>
        /\ roles[nodes[i].id] = CascadeRole(hits)

\* a node that the Start rule and the End rule both match got the role Start,
\* beside a node that no rule matches
C24_Witness ==
  /\ pc = "interpret"
  /\ diagram_type = "Flowchart"
  /\ \E i \in 1..Len(nodes) :
       /\ {1, 2} \subseteq MatchingRules(nodes[i])
       /\ roles[nodes[i].id] = <<"S","t","a","r","t">>

\* the flow type the claim gives a role, compared in lower case
ClaimedFlowType(role) ==
  LET r == Lower(role)
  IN  CASE r \in {<<"s","t","a","r","t">>, <<"e","n","d">>, <<"d","e","c","i","s","i","o","n">>, <<"l","o","o","p">>, <<"j","u","m","p">>} -> r
        [] r \in {<<"i","n","p","u","t">>, <<"o","u","t","p","u","t">>, <<"p","r","o","c","e","s","s">>, <<"t","a","s","k">>} -> r
        [] r \in {<<"c","l","a","s","s">>, <<"i","n","t","e","r","f","a","c","e">>, <<"m","e","t","h","o","d">>, <<"a","t","t","r","i","b","u","t","e">>} -> <<"u","m","l","_","e","l","e","m","e","n","t">>
        [] OTHER -> <<"g","e","n","e","r","i","c","_","a","c","t","i","o","n">>

\* the diagram types whose roles the claim sends to generic_action
OtherTypes == {"UML Sequence Diagram", "ER Diagram", "UML Activity Diagram"}

\* no step keeps the default, and branches is a field of the decision steps
\* only
DefaultGoneBranchesOnDecision ==
  \A i \in 1..Len(Flow) :
    /\ Flow[i].flow_type # <<"a","c","t","i","o","n">>
    /\ ("branches" \in DOMAIN Flow[i]) <=> (Flow[i].flow_type = <<"d","e","c","i","s","i","o","n">>)

\* C25 as stated: the flow type of a step follows the table of roles, every
\* role assigned under a Sequence, ER or Activity diagram gives
\* generic_action, no step keeps "action", and branches is present exactly
\* on decision steps.
C25_FlowType ==
  pc = "done" =>
    /\ \A i \in 1..Len(Flow) :
         /\ Flow[i].flow_type = ClaimedFlowType(Flow[i].role)
         /\ diagram_type \in OtherTypes => Flow[i].flow_type = <<"g","e","n","e","r","i","c","_","a","c","t","i","o","n">>
    /\ DefaultGoneBranchesOnDecision

\* C25, amended: the flow type of a step follows the table of roles, so the
\* role Attribute gives uml_element under an ER diagram too; every other
\* role assigned under a Sequence, ER or Activity diagram gives
\* generic_action; no step keeps "action", and branches is present exactly on
\* decision steps.
C25_FlowTypeByRole ==
  pc = "done" =>
    /\ \A i \in 1..Len(Flow) :
         /\ Flow[i].flow_type = ClaimedFlowType(Flow[i].role)
         /\ (diagram_type \in OtherTypes /\ Flow[i].role # <<"A","t","t","r","i","b","u","t","e">>)
              => Flow[i].flow_type = <<"g","e","n","e","r","i","c","_","a","c","t","i","o","n">>
         /\ (diagram_type = "ER Diagram" /\ Flow[i].role = <<"A","t","t","r","i","b","u","t","e">>)
              => Flow[i].flow_type = <<"u","m","l","_","e","l","e","m","e","n","t">>
    /\ DefaultGoneBranchesOnDecision

\* an ER diagram has a step of the role Entity and a step of the role Attribute
C25_Witness ==
  /\ pc = "done"
  /\ diagram_type = "ER Diagram"
  /\ \E i, j \in 1..Len(Flow) :
       /\ Flow[i].role = <<"E","n","t","i","t","y">> /\ Flow[i].flow_type = <<"g","e","n","e","r","i","c","_","a","c","t","i","o","n">>
       /\ Flow[j].role = <<"A","t","t","r","i","b","u","t","e">> /\ Flow[j].flow_type = <<"u","m","l","_","e","l","e","m","e","n","t">>

\* the ids of the steps 1..k of the execution flow
Emitted(k) == {Flow[j].node_id : j \in 1..k}

\* the known nodes reached from the set S along edges between known nodes,
\* in at most k more steps
RECURSIVE KnownReach(_, _)
KnownReach(S, k) ==
  IF k = 0 THEN S
  ELSE KnownReach(S \cup {edges[e].target : e \in {d \in 1..Len(edges) :
                                                    /\ edges[d].source \in S
                                                    /\ HasNode(nodes, edges[d].target)}},
                  k - 1)

\* the outgoing edges of the node u that lead to a known node outside the
\* set em, by their position in the edge list
OpenEdges(u, em) ==
  {d \in 1..Len(edges) : /\ edges[d].source = u
                         /\ HasNode(nodes, edges[d].target)
                         /\ edges[d].target \notin em}

\* the node u starts a new root: no node of the set em has an edge to it
IsRoot(u, em) ==
  \A d \in 1..Len(edges) : ~(edges[d].source \in em /\ edges[d].target = u)

\* the ids of the traversal order that are nodes outside the set em, by their
\* position in the order
FreshInOrder(em) == {k \in 1..Len(order) : HasNode(nodes, order[k]) /\ order[k] \notin em}

\* C26: execution_flow is in depth-first pre-order: the first step is the
\* first id of the traversal order; a step whose node has an outgoing edge to
\* a known node not yet emitted is followed by the target of the first such
\* edge; and a step that starts a new root is the first id of the traversal
\* order not yet emitted, taken when everything reachable from the earlier
\* steps has been emitted.
C26_DepthFirstPreOrder ==
  pc = "done" =>
    /\ Len(order) > 0 => (Len(Flow) > 0 /\ Flow[1].node_id = order[1])
    /\ \A i \in 1..Len(Flow) :
         \A open \in {OpenEdges(Flow[i].node_id, Emitted(i))} :
           open # {} =>
             /\ i < Len(Flow)
             /\ Flow[i + 1].node_id = edges[Least(open)].target
    /\ \A i \in 2..Len(Flow) :
         \A em \in {Emitted(i - 1)} :
           IsRoot(Flow[i].node_id, em) =>
             \A fresh \in {FreshInOrder(em)} :
               /\ KnownReach(em, Len(nodes)) \subseteq em
               /\ fresh # {}
               /\ Flow[i].node_id = order[Least(fresh)]

\* the flow descends n1, n2, n4 before it returns to n3, while the traversal
\* order has n3 before n4
C26_Witness ==
  /\ pc = "done"
  /\ Len(Flow) = 4
  /\ [i \in 1..4 |-> Flow[i].node_id] = <<"n1", "n2", "n4", "n3">>
  /\ order = <<"n1", "n2", "n3", "n4">>

\* the keywords the role rules of a diagram type look for in a label
RoleKeywords(dtype) ==
  CASE dtype = "UML Sequence Diagram" -> {<<"l","i","f","e","l","i","n","e">>, <<"m","e","s","s","a","g","e">>, <<"-","-",">">>}
    [] dtype = "ER Diagram" -> {<<"e","n","t","i","t","y">>, <<"a","t","t","r","i","b","u","t","e">>, <<"r","e","l","a","t","i","o","n">>, <<"r","e","l","a","t","i","o","n","s","h","i","p">>}
    [] dtype = "UML Activity Diagram" ->
         {<<"f","o","r","k">>, <<"j","o","i","n">>, <<"a","c","t","i","o","n">>, <<"a","c","t","i","v","i","t","y">>, <<"s","w","i","m","l","a","n","e">>}

\* the node's label holds none of the role keywords of the diagram type
Unmatched(n, dtype) ==
  \A w \in RoleKeywords(dtype) : ~Contains(Lower(Strip(n.label)), w)

\* C27 as stated: under UML Sequence Diagram, ER Diagram and UML Activity
\* Diagram a role is stored for every node, and it is "Unknown" for a node
\* whose label matches none of the type's role keywords.
C27_UnmatchedUnknown ==
  (pc = "interpret" /\ diagram_type \in OtherTypes) =>
    \A i \in 1..Len(nodes) :
      /\ nodes[i].id \in DOMAIN roles
      /\ Unmatched(nodes[i], diagram_type) => roles[nodes[i].id] = <<"U","n","k","n","o","w","n">>

\* C27, amended: a role is stored for every node; for a node whose label
\* matches none of the type's role keywords it is "Unknown" under ER Diagram
\* and UML Activity Diagram, and "Actor" under UML Sequence Diagram.
C27_UnmatchedUnknownOrActor ==
  (pc = "interpret" /\ diagram_type \in OtherTypes) =>
    \A i \in 1..Len(nodes) :
      /\ nodes[i].id \in DOMAIN roles
      /\ Unmatched(nodes[i], diagram_type) =>
           roles[nodes[i].id] = IF diagram_type = "UML Sequence Diagram"
                                  THEN <<"A","c","t","o","r">> ELSE <<"U","n","k","n","o","w","n">>

\* an Activity diagram has a node that matches a keyword and a node that
\* matches none, stored as Unknown
C27_Witness ==
  /\ pc = "interpret"
  /\ diagram_type = "UML Activity Diagram"
  /\ \E i, j \in 1..Len(nodes) :
       /\ ~Unmatched(nodes[i], diagram_type)
       /\ Unmatched(nodes[j], diagram_type)
       /\ roles[nodes[j].id] = <<"U","n","k","n","o","w","n">>

\* C28: whenever two or more diagram types share the highest score and it is
\* not zero, whatever the tied types and the tied value, the result is
\* Flowchart.
C28_TiesGiveFlowchart ==
  (Typed /\ TopScore # 0 /\ Cardinality(TopTypes) >= 2) => diagram_type = "Flowchart"

\* the keyword sets of the five types, the two UML stereotypes written with
\* the given opening and closing marks
KeywordSets(t, open, close) ==
  CASE t = "Flowchart" -> {<<"s","t","a","r","t">>, <<"s","t","o","p">>, <<"i","n","p","u","t">>, <<"o","u","t","p","u","t">>, <<"d","e","c","i","s","i","o","n">>,
                           <<"p","r","o","c","e","s","s">>, <<"e","n","d">>}
    [] t = "UML Class Diagram" -> {<<"c","l","a","s","s">>, <<"a","t","t","r","i","b","u","t","e">>, <<"m","e","t","h","o","d">>,
                                   open \o <<"i","n","t","e","r","f","a","c","e">> \o close,
                                   open \o <<"a","b","s","t","r","a","c","t">> \o close}
    [] t = "UML Sequence Diagram" -> {<<"a","c","t","i","v","a","t","e">>, <<"d","e","a","c","t","i","v","a","t","e">>, <<"m","e","s","s","a","g","e">>,
                                      <<"r","e","t","u","r","n">>, <<"l","i","f","e","l","i","n","e">>}
    [] t = "ER Diagram" -> {<<"e","n","t","i","t","y">>, <<"r","e","l","a","t","i","o","n">>, <<"a","t","t","r","i","b","u","t","e">>, <<"p","r","i","m","a","r","y"," ","k","e","y">>,
                            <<"f","o","r","e","i","g","n"," ","k","e","y">>}
    [] t = "UML Activity Diagram" -> {<<"a","c","t","i","v","i","t","y">>, <<"f","o","r","k">>, <<"j","o","i","n">>, <<"a","c","t","i","o","n">>,
                                      <<"s","w","i","m","l","a","n","e">>}

\* the keyword signal of one node for one type: 2 when the lowercased label
\* holds a keyword of the type, however many
KeywordSignal(n, kws) == IF \E k \in kws : Contains(Lower(n.label), k) THEN 2 ELSE 0

\* the shape signal and the structural signal of one node for one type
OtherSignals(n, t) ==
  LET l == Lower(n.label)
      s == Lower(n.shape)
      box == IF s \in {<<"r","e","c","t","a","n","g","l","e">>, <<"r","o","u","n","d","r","e","c","t","a","n","g","l","e">>} THEN 1 ELSE 0
  IN  CASE t = "Flowchart" ->
             IF s \in {<<"d","i","a","m","o","n","d">>, <<"p","a","r","a","l","l","e","l","o","g","r","a","m">>, <<"e","l","l","i","p","s","e">>, <<"d","o","c","u","m","e","n","t">>,
                       <<"o","f","f","p","a","g","e","c","o","n","n","e","c","t","o","r">>} THEN 2 ELSE box
        [] t = "UML Class Diagram" ->
             box
             + (IF \/ Contains(l, <<":",":">>)
                   \/ Contains(l, <<"c","l","a","s","s">>) /\ Contains(l, <<"{">>) /\ Contains(l, <<"}">>)
                  THEN 3 ELSE 0)
             + (IF Contains(l, <<"(">>) /\ Contains(l, <<")">>) /\ Contains(l, <<":">>)
                  THEN 2 ELSE 0)
        [] t = "UML Activity Diagram" -> IF s = <<"h","e","x","a","g","o","n">> THEN 2 ELSE 0
        [] OTHER -> 0

\* the score of type t after the nodes i..Len(nodes), with the keyword sets
\* given
RECURSIVE SignalSum(_, _, _)
SignalSum(t, kws, i) ==
  IF i > Len(nodes) THEN 0
  ELSE OtherSignals(nodes[i], t) + KeywordSignal(nodes[i], kws) + SignalSum(t, kws, i + 1)

\* C29 as stated: beside the shape and structural signals, every node adds 2
\* to the score of each type of which its lowercased label holds a keyword,
\* once per node and type; the UML-Class keywords are class, attribute,
\* method and the stereotypes interface and abstract between the guillemets
\* U+00AB and U+00BB.
C29_KeywordSignal ==
  Typed =>
    \A t \in DOMAIN ZeroScores :
      NodeScores[t] =
        SignalSum(t, KeywordSets(t, <<LeftGuillemet>>, <<RightGuillemet>>), 1)

\* C29, amended: the same, with the two stereotypes between the ASCII marks
\* << and >>; a label that has them between guillemets adds nothing.
C29_KeywordSignalAscii ==
  Typed =>
    \A t \in DOMAIN ZeroScores :
      NodeScores[t] = SignalSum(t, KeywordSets(t, <<"<","<">>, <<">",">">>), 1)

\* a node with two UML-Class keywords added 2 to UML-Class, or a node with
\* the label attribute added 2 to UML-Class and 2 to ER
C29_Witness ==
  /\ Typed
  /\ \E i \in 1..Len(nodes) :
       /\ nodes[i].label = <<"c","l","a","s","s"," ","m","e","t","h","o","d">>
       /\ nodes[i].shape = <<>>
       /\ Len(nodes) = 1
       /\ NodeScores["UML Class Diagram"] = 2

\* task k has been taken once, an entry with a final status is in the dict
\* of the execution that put it, and task_done has returned once for it
Processed(k) ==
  /\ k <= Len(worker.put_log)
  /\ worker.taken[k] = 1
  /\ worker.done_calls[k] = 1
  /\ LET t == worker.put_log[k]
     IN  /\ t.diagram_hash \in DOMAIN worker.ollama_results[t.run]
         /\ worker.ollama_results[t.run][t.diagram_hash] \in {"completed", "error"}

\* C30: every task put on ollama_queue is eventually taken, exactly once, and
\* leaves ollama_results[diagram_hash] with the status "completed" or
\* "error" and one task_done call; the worker stops on a None task only, so
\* no exception ends its loop.
C30_EveryTaskProcessed ==
  /\ [](\A k \in 1..MaxTasks : worker.taken[k] <= 1 /\ worker.done_calls[k] <= 1)
  /\ [](worker.pc # "stopped")
  /\ \A k \in 1..MaxTasks : (Len(worker.put_log) >= k) ~> Processed(k)
====
